---- MODULE Spec2Model ----
(***************************************************************************)
(* Streaming encryption engine of MTG-Next-API (utils/encryption):         *)
(* getEncryptionKey, encryptFile, decryptFile, createDecryptStream.        *)
(*                                                                         *)
(* Bytes are integers 0..255, files are byte sequences, a key value is the *)
(* sequence of the characters of process.env.ENCRYPT_KEY.  The Node        *)
(* runtime (fs streams, stream.pipeline, the crypto cipher objects) is     *)
(* modelled by its documented behaviour; every handler runs to completion  *)
(* as one action, asynchronous file operations are separate actions.       *)
(***************************************************************************)
EXTENDS Integers, Sequences, FiniteSets, TLC

(***************************************************************************)
(* Program constants                                                       *)
(***************************************************************************)
\* ALGORITHM = 'aes-256-cbc': 16-byte blocks, 32-byte key
BlockSize == 16
KeyLength == 32
\* crypto.randomBytes(16), ivBuffer = Buffer.alloc(16), chunk.slice(0, 16)
IvLength == 16
\* a Buffer element is one byte
ByteRange == 256

(***************************************************************************)
(* Bounds of the model                                                     *)
(***************************************************************************)
\* plaintexts have up to MaxBlocks full blocks plus a short tail
MaxBlocks == 2
\* number of distinct IVs crypto.randomBytes can return in the model
NumIvs == 2
\* number of injected I/O faults (read, write, open, mkdir, unlink) per run
MaxFaults == 1
\* the count of chunks a decrypt stream has transformed saturates here
ChunkCountCap == 2
\* highWaterMark of the Transform (16 KiB in Node), scaled to the files of
\* the model: the number of buffered bytes from which a stream stops taking
\* more
HighWaterMark == 16
\* calls made in one run of the concurrent specification
MaxConcurrent == 2
\* the largest argument of fetchCardsFromScryfall and of populateCards, the
\* number of different cards the remote API returns
MaxCount == 4
MaxTarget == 2
NumCards == 4
\* fetch attempts of one run of populateCards explored
FetchCap == 5 * MaxTarget + 2

(***************************************************************************)
(* Byte helpers                                                            *)
(***************************************************************************)
Min(a, b) == IF a < b THEN a ELSE b

\* Buffer.slice(from) / Buffer.slice(from, to) with 0-based offsets
Slice(buf, from, to) == SubSeq(buf, from + 1, Min(to, Len(buf)))
SliceFrom(buf, from) == SubSeq(buf, from + 1, Len(buf))

RECURSIVE XorBits(_, _)
XorBits(a, b) ==
    IF a = 0 THEN b
    ELSE IF b = 0 THEN a
    ELSE ((a + b) % 2) + 2 * XorBits(a \div 2, b \div 2)

\* the xor of every pair of bytes, tabulated once
XorTable ==
    [a \in 1..ByteRange |-> [b \in 1..ByteRange |-> XorBits(a - 1, b - 1)] \o <<>>] \o <<>>
XorByte(a, b) == XorTable[a + 1][b + 1]

XorBlock(x, y) == [j \in 1..BlockSize |-> XorByte(x[j], y[j])]

(***************************************************************************)
(* Buffer.from(str, 'hex'): two characters per byte, decoding stops at the *)
(* first pair that is not two hexadecimal digits; a trailing single        *)
(* character is dropped.                                                   *)
(***************************************************************************)
HexChars == <<"0", "1", "2", "3", "4", "5", "6", "7",
              "8", "9", "a", "b", "c", "d", "e", "f">>
HexUpper == <<"0", "1", "2", "3", "4", "5", "6", "7",
              "8", "9", "A", "B", "C", "D", "E", "F">>

IsHexChar(c) == \E i \in 1..16 : HexChars[i] = c \/ HexUpper[i] = c
HexVal(c) == (CHOOSE i \in 1..16 : HexChars[i] = c \/ HexUpper[i] = c) - 1

RECURSIVE HexDecodeFrom(_, _)
HexDecodeFrom(str, i) ==
    IF i + 1 > Len(str) THEN <<>>
    ELSE IF ~(IsHexChar(str[i]) /\ IsHexChar(str[i + 1])) THEN <<>>
    ELSE <<16 * HexVal(str[i]) + HexVal(str[i + 1])>> \o HexDecodeFrom(str, i + 2)

BufferFromHex(str) == HexDecodeFrom(str, 1)

\* buf.toString('hex')
RECURSIVE ToHexFrom(_, _)
ToHexFrom(buf, i) ==
    IF i > Len(buf) THEN <<>>
    ELSE <<HexChars[(buf[i] \div 16) + 1], HexChars[(buf[i] % 16) + 1]>>
         \o ToHexFrom(buf, i + 1)
ToHex_raw(buf) == buf
ToHex(buf) == ToHexFrom(buf, 1)

(***************************************************************************)
(* getEncryptionKey: the value of process.env.ENCRYPT_KEY is read at every *)
(* call.  An unset variable and an empty string both satisfy !ENCRYPT_KEY; *)
(* both are the empty sequence here.  The result is [ok, key] or an error. *)
(***************************************************************************)
KeyMissing == "ENCRYPT_KEY is required in environment variables"
InvalidKeyLength == "Invalid key length"
TooShort == "Invalid encrypted file: too short"
WrongFinalBlockLength == "wrong final block length"
BadDecrypt == "bad decrypt"
ENOENT == "ENOENT"
EIO == "EIO"
EACCES == "EACCES"
ENOSPC == "ENOSPC"
EPERM == "EPERM"
NoError == "none"

getEncryptionKey(env) ==
    IF env = <<>> THEN [ok |-> FALSE, err |-> KeyMissing, key |-> <<>>]
    ELSE [ok |-> TRUE, err |-> NoError, key |-> BufferFromHex(env)]

(***************************************************************************)
(* The block cipher.  AES itself is replaced by a keyed byte permutation   *)
(* of the block (rotation of the positions plus a key-dependent offset);   *)
(* the CBC chaining, the PKCS#7 padding and the buffering of partial       *)
(* blocks follow crypto.Cipheriv / crypto.Decipheriv (OpenSSL EVP).        *)
(***************************************************************************)
RoundKey(key, j) == (key[j] + 2 * key[j + BlockSize]) % ByteRange

EncBlock(key, x) ==
    [j \in 1..BlockSize |-> (x[(j % BlockSize) + 1] + RoundKey(key, j)) % ByteRange]

\* inverse of EncBlock: x[(j % 16) + 1] = y[j] - RoundKey(j)
DecBlock(key, y) ==
    [m \in 1..BlockSize |->
        LET j == ((m + BlockSize - 2) % BlockSize) + 1
        IN  (y[j] + ByteRange - RoundKey(key, j)) % ByteRange]

\* crypto.createCipheriv / createDecipheriv: throws on a key of the wrong length
NoCipher == [live |-> FALSE, key |-> <<>>, prev |-> <<>>, buf |-> <<>>, held |-> <<>>]

createCipheriv(keyRes, iv) ==
    IF ~keyRes.ok THEN [ok |-> FALSE, err |-> keyRes.err, c |-> NoCipher]
    ELSE IF Len(keyRes.key) # KeyLength
         THEN [ok |-> FALSE, err |-> InvalidKeyLength, c |-> NoCipher]
    ELSE [ok |-> TRUE, err |-> NoError,
          c |-> [live |-> TRUE, key |-> keyRes.key, prev |-> iv,
                 buf |-> <<>>, held |-> <<>>]]

\* cipher.update(data): encrypts every complete block, keeps the tail
RECURSIVE EncBlocks(_, _, _)
EncBlocks(key, prev, data) ==
    IF Len(data) < BlockSize THEN [out |-> <<>>, prev |-> prev, rest |-> data]
    ELSE LET c == EncBlock(key, XorBlock(SubSeq(data, 1, BlockSize), prev))
             r == EncBlocks(key, c, SliceFrom(data, BlockSize))
         IN  [out |-> c \o r.out, prev |-> r.prev, rest |-> r.rest]

CipherUpdate(c, data) ==
    LET r == EncBlocks(c.key, c.prev, c.buf \o data)
    IN  [c |-> [c EXCEPT !.prev = r.prev, !.buf = r.rest], out |-> r.out]

\* PKCS#7: between 1 and 16 bytes, each equal to the number of bytes added
PadLen(n) == BlockSize - (n % BlockSize)
Pkcs7Pad(buf) == buf \o [j \in 1..PadLen(Len(buf)) |-> PadLen(Len(buf))]

\* cipher.final(): the padded last block
CipherFinal(c) == EncBlock(c.key, XorBlock(Pkcs7Pad(c.buf), c.prev))

\* decipher.update(data), data not empty: the block held back by the previous
\* call is released, every complete block is decrypted, and when the input
\* ends on a block boundary the last plaintext block is held back for final()
RECURSIVE DecBlocks(_, _, _)
DecBlocks(key, prev, data) ==
    IF Len(data) < BlockSize THEN [out |-> <<>>, prev |-> prev, rest |-> data]
    ELSE LET c == SubSeq(data, 1, BlockSize)
             p == XorBlock(DecBlock(key, c), prev)
             r == DecBlocks(key, c, SliceFrom(data, BlockSize))
         IN  [out |-> p \o r.out, prev |-> r.prev, rest |-> r.rest]

DecipherUpdate(d, data) ==
    IF data = <<>> THEN [c |-> d, out |-> <<>>] ELSE
    LET r == DecBlocks(d.key, d.prev, d.buf \o data)
        hold == r.rest = <<>> /\ Len(r.out) >= BlockSize
        keep == IF hold THEN Len(r.out) - BlockSize ELSE Len(r.out)
    IN  [c |-> [d EXCEPT !.prev = r.prev, !.buf = r.rest,
                         !.held = IF hold THEN SliceFrom(r.out, keep) ELSE <<>>],
         out |-> d.held \o SubSeq(r.out, 1, keep)]

\* decipher.final(): checks and strips the padding of the held block
DecipherFinal(d) ==
    IF d.buf # <<>> \/ d.held = <<>>
    THEN [ok |-> FALSE, err |-> WrongFinalBlockLength, out |-> <<>>]
    ELSE LET n == d.held[BlockSize]
         IN  IF n = 0 \/ n > BlockSize
                \/ \E j \in (BlockSize - n + 1)..BlockSize : d.held[j] # n
             THEN [ok |-> FALSE, err |-> BadDecrypt, out |-> <<>>]
             ELSE [ok |-> TRUE, err |-> NoError,
                   out |-> SubSeq(d.held, 1, BlockSize - n)]

(***************************************************************************)
(* The file system and the inputs                                          *)
(***************************************************************************)
\* the three paths of a run: the plaintext source, the container, the
\* destination of decryptFile; DirOf is path.dirname
Paths == {"plain", "enc", "enc2", "dec"}
DirOf(p) ==
    IF p = "plain" THEN "temp"
    ELSE IF p \in {"enc", "enc2"} THEN "encrypted" ELSE "out"

NoFile == [exists |-> FALSE, data |-> <<>>]
File(bytes) == [exists |-> TRUE, data |-> bytes]

\* plaintext of n bytes
Plain(n) == [i \in 1..n |-> (i * 37 + n) % ByteRange]
PlainLengths ==
    {b * BlockSize + d : b \in 0..MaxBlocks, d \in {0, 1, 3, BlockSize - 1}}
Plaintexts == {Plain(n) : n \in PlainLengths}

\* the IVs crypto.randomBytes(16) may return
Iv(s) == [i \in 1..IvLength |-> (s * 11 * i + s) % ByteRange]
Ivs == {Iv(s) : s \in 1..NumIvs}

\* key values of process.env.ENCRYPT_KEY
HexString(n) == [i \in 1..n |-> HexChars[((i * 7 + 3) % 16) + 1]]
GoodKey == HexString(2 * KeyLength)
\* another value of 64 hexadecimal characters
OtherKey == [i \in 1..(2 * KeyLength) |-> HexChars[((i * 5 + 1) % 16) + 1]]
KeyValues ==
    { <<>>,                                           \* unset or empty
      GoodKey,
      HexString(2 * KeyLength - 2),                   \* 31 bytes
      HexString(2 * KeyLength + 2),                   \* 33 bytes
      GoodKey \o <<"z", "z">>,                        \* trailing non-hex pair
      GoodKey \o <<"g">>,                             \* trailing single char
      HexString(KeyLength) \o <<"z", "z">> \o HexString(KeyLength - 2),
      <<"z", "z">> \o HexString(2 * KeyLength - 2) }  \* leading non-hex pair

\* a container as a correct encryptFile writes it
ContainerOf(keyStr, iv, plaintext) ==
    LET c0 == createCipheriv(getEncryptionKey(keyStr), iv).c
        u == CipherUpdate(c0, plaintext)
    IN  iv \o u.out \o CipherFinal(u.c)

SampleContainer == ContainerOf(GoodKey, Iv(1), Plain(BlockSize + 1))
CorruptLast(c) ==
    [c EXCEPT ![Len(c) - 1] = (c[Len(c) - 1] + 1) % ByteRange]

\* containers found on disk that encryptFile did not write in this run:
\* valid, empty, shorter than an IV, IV only, truncated inside a block,
\* truncated on a block boundary, corrupt padding
StoredContainers ==
    { SampleContainer,
      <<>>,
      SubSeq(SampleContainer, 1, 5),
      SubSeq(SampleContainer, 1, IvLength),
      SubSeq(SampleContainer, 1, IvLength + 4),
      SubSeq(SampleContainer, 1, IvLength + BlockSize),
      CorruptLast(SampleContainer) }

(***************************************************************************)
(* State                                                                   *)
(***************************************************************************)
VARIABLES
    envKey,     \* process.env.ENCRYPT_KEY
    files,      \* path -> [exists, data]
    dirs,       \* existing directories
    faults,     \* injected I/O failures so far
    crashed,    \* an 'error' event was emitted with no listener
    enc,        \* the encryptFile call
    dec,        \* the decryptFile call
    str,        \* the createDecryptStream call
    str2,       \* a second createDecryptStream call on the same container
    img,        \* a getCardImage request and its HTTP response
    auth,       \* an authenticateToken call and its HTTP response
    up,         \* the card collection, the upload directories and the createCard requests
    pop         \* the populate script

\* the encryption module and the file system
cryptoVars == <<envKey, files, dirs, faults, crashed, enc, dec, str, str2>>
\* the request handlers and scripts that call it
appVars == <<img, auth, up, pop>>
notImg == <<auth, up, pop>>
notAuth == <<img, up, pop>>
notUp == <<img, auth, pop>>
notPop == <<img, auth, up>>

vars == <<cryptoVars, appVars>>

\* a file-to-file operation: the async function, its read stream, its cipher
\* and its write stream; dst is the outputPath of an encryptFile call
IdleOp ==
    [pc |-> "idle", err |-> NoError, iv |-> <<>>, cipher |-> NoCipher,
     rd |-> "none", pos |-> 0,
     wr |-> "none", wbuf |-> <<>>, wending |-> FALSE,
     unlink |-> "none", madeDir |-> FALSE, first |-> "none",
     dst |-> "none",
     result |-> [encryptedPath |-> "", iv |-> <<>>]]

\* the decrypt stream: closure variables iv and decipher, the source read
\* stream, and what the Transform pushed.  first records whether the first
\* chunk of the source held fewer bytes than an IV ("short") or not ("full");
\* chunks counts the chunks transformed.  pos is the number of source bytes
\* the transform function has been given; out is everything it pushed and
\* taken the number of those bytes the consumer has received.  inflight is
\* the length of the chunk whose callback the Transform withholds, queued the
\* length of the chunk written behind it, needDrain whether write() returned
\* false and 'drain' is still to come, ending whether end() has been called.
\* finals counts the calls of decipher.final(), nerr the 'error' events of the
\* Transform, rderr is the error of the source read stream.
IdleStream ==
    [pc |-> "idle", err |-> NoError, hasIv |-> FALSE, iv |-> <<>>,
     decipher |-> NoCipher, rd |-> "none", pos |-> 0,
     out |-> <<>>, lastPush |-> <<>>, chunks |-> 0, first |-> "none",
     taken |-> 0, sink |-> "none", inflight |-> 0, queued |-> 0,
     needDrain |-> FALSE, ending |-> FALSE,
     finals |-> 0, nerr |-> 0, rderr |-> NoError]

\* the HTTP response of a request: status is 0 until res.status() is called
\* (Express then sends 200), contentType is the Content-Type header, body the
\* bytes written, error the `error` member of a JSON body
NoResponse ==
    [status |-> 0, contentType |-> "", headersSent |-> FALSE, body |-> <<>>,
     error |-> "", ended |-> FALSE]

\* a getCardImage request: card is what Card.findById returns ("absent": no
\* such card, "noImage": a card without imagePath, "image": a card with one),
\* originalname the name of the upload its imagePath was generated from,
\* handled whether the 'error' listener of line 105 has run
IdleImg ==
    [pc |-> "idle", card |-> "absent", originalname |-> <<>>, imagePath |-> <<>>,
     handled |-> FALSE, res |-> NoResponse]

\* an authenticateToken call: header is the Authorization header, jwtSecret
\* whether JWT_SECRET is set, userExists whether the token's user is stored,
\* thrown the error caught at line 316, nextCalled whether next() was called
IdleAuth ==
    [pc |-> "idle", header |-> <<>>, jwtSecret |-> TRUE, userExists |-> TRUE,
     thrown |-> "", nextCalled |-> FALSE, res |-> NoResponse]
\* the createCard requests in flight
Requests == {"r1", "r2"}

\* a createCard request: valid is whether the body passes the checks of
\* lines 131-165, hasFile whether req.file is set, tempFilePath whether the
\* variable of line 122 has been assigned, imagePath the name of the
\* encrypted image, thrown the error caught at line 236
IdleReq ==
    [pc |-> "idle", valid |-> TRUE, hasFile |-> FALSE, scryfallId |-> "",
     tempFilePath |-> FALSE, imagePath |-> <<>>, thrown |-> "",
     unlinkFailed |-> FALSE, res |-> NoResponse]

\* the saveCard call of the populate script
IdleSaver == [pc |-> "idle", imagePath |-> <<>>, result |-> ""]

\* cards: the stored cards; temp: the requests whose uploaded temporary file
\* exists; encrypted: the names in the encrypted directory
IdleUp ==
    [cards |-> {}, temp |-> {}, encrypted |-> {},
     req |-> [r \in Requests |-> IdleReq], saver |-> IdleSaver]
\* a run of the populate script: count is the argument (count or
\* targetCount), cards the cards collected by fetchCardsFromScryfall, seenIds
\* the set of line 106 or 223, looped whether the loop of line 229 was
\* reached, broke whether a safety check ended the loop
IdlePop ==
    [pc |-> "idle", count |-> 0, cards |-> <<>>, seenIds |-> {},
     savedCount |-> 0, totalFetched |-> 0, looped |-> FALSE, broke |-> FALSE]

\* no request is being served and no script runs
AppIdle == img = IdleImg /\ auth = IdleAuth /\ up = IdleUp /\ pop = IdlePop

\* a run starts from one of: a plaintext to encrypt, a stored container to
\* decrypt, nothing on disk; each with the documented key, and the smallest
\* of them with every key value
SmallPlain == Plain(3)
SmallContainer == ContainerOf(GoodKey, Iv(1), SmallPlain)
Scenarios ==
    {[key |-> GoodKey, plain |-> File(p), enc |-> NoFile] : p \in Plaintexts}
    \cup {[key |-> GoodKey, plain |-> NoFile, enc |-> File(c)] : c \in StoredContainers}
    \cup {[key |-> GoodKey, plain |-> NoFile, enc |-> NoFile]}
    \cup {[key |-> k, plain |-> File(SmallPlain), enc |-> NoFile] : k \in KeyValues}
    \cup {[key |-> k, plain |-> NoFile, enc |-> File(c)] :
            k \in KeyValues, c \in {SmallContainer, <<>>}}

Init ==
    \E s \in Scenarios :
        /\ envKey = s.key
        /\ files = [p \in Paths |-> IF p = "plain" THEN s.plain
                                    ELSE IF p = "enc" THEN s.enc ELSE NoFile]
        /\ dirs = {"temp"} \cup (IF s.enc.exists THEN {"encrypted"} ELSE {})
        /\ faults = 0
        /\ crashed = FALSE
        /\ enc = IdleOp
        /\ dec = IdleOp
        /\ str = IdleStream
        /\ str2 = IdleStream
        /\ AppIdle

(***************************************************************************)
(* Node runtime: fs.ReadStream, fs.WriteStream, stream.pipeline            *)
(*                                                                         *)
(* A read stream is "opening", then "open", then "closed" (end of file,    *)
(* error or destroy).  A stream destroyed while its open is pending is     *)
(* "closing": the open still completes (and creates the file for a write   *)
(* stream), then the descriptor is closed.  pipeline() settles once every  *)
(* stream has closed; on its first error it destroys all of them.          *)
(***************************************************************************)
\* one chunk of the file at path p read at offset pos: any length from 1 to
\* what is left (a read may return fewer bytes than asked for)
ChunkLengths(p, pos) == 1..(Len(files[p].data) - pos)
Chunk(p, pos, k) == SubSeq(files[p].data, pos + 1, pos + k)
AtEof(p, pos) == pos >= Len(files[p].data)

FaultAllowed == faults < MaxFaults

Destroyed(st) ==
    IF st = "open" THEN "closed" ELSE IF st = "opening" THEN "closing" ELSE st

\* pipeline(readStream, cipher, writeStream) fails with e: every stream is
\* destroyed (their buffers and positions are not read again)
PipelineFail(o, e) ==
    [o EXCEPT !.pc = "failing", !.err = e, !.cipher = NoCipher, !.pos = 0,
              !.rd = Destroyed(o.rd), !.wr = Destroyed(o.wr),
              !.wbuf = <<>>, !.wending = FALSE]

StreamsClosed(o) == o.rd = "closed" /\ o.wr = "closed"

\* fs.open(path, 'w'): creates the file or truncates it
Opened(p) == [files EXCEPT ![p] = File(<<>>)]
\* fs.write appends at the position of the descriptor; the path of an
\* unlinked file stays absent
Appended(p, bytes) ==
    IF files[p].exists THEN [files EXCEPT ![p] = File(files[p].data \o bytes)]
    ELSE files

(***************************************************************************)
(* One operation runs at a time: a call starts when no event of an earlier *)
(* call is pending.                                                        *)
(***************************************************************************)
OpBusy(o) ==
    \/ o.pc \in {"mkdir", "piping", "failing"}
    \/ o.rd \in {"opening", "open", "closing"}
    \/ o.wr \in {"opening", "closing"}
    \/ (o.wr = "open" /\ o.wbuf # <<>>)
StreamBusy ==
    \/ str.pc = "active" /\ (str.rd \in {"opening", "open"} \/ str.ending)
    \/ str.pc \in {"active", "ended"} /\ str.sink = "piped" /\ Len(str.out) > str.taken
Quiet == ~crashed /\ ~OpBusy(enc) /\ ~OpBusy(dec) /\ ~StreamBusy
\* I/O faults are injected into the last call of a run only: what a failed
\* call leaves on disk for a later one is covered by StoredContainers
CanCall == Quiet /\ faults = 0

(***************************************************************************)
(* encryptFile(inputPath = "plain", outputPath = enc.dst)                  *)
(***************************************************************************)
\* line 37: what is written to the destination before the pipeline starts
EncHeader_none(iv) == <<>>
EncHeader(iv) == iv
\* line 53: the path the catch block unlinks
EncCleanupPath_input(inputPath, outputPath) == inputPath
EncCleanupPath(inputPath, outputPath) == outputPath

\* lines 25-29: the IV is drawn, mkdir is awaited.  outputPath is a fresh
\* name (generateEncryptedFilename), so no file exists there.
encryptFile ==
    /\ CanCall /\ enc.pc = "idle" /\ dec.pc = "idle" /\ str.pc = "idle"
    /\ ~files["enc"].exists
    /\ \E iv \in Ivs : enc' = [enc EXCEPT !.pc = "mkdir", !.iv = iv, !.dst = "enc"]
    /\ UNCHANGED <<envKey, files, dirs, faults, crashed, dec, str, str2, appVars>>

\* line 29 fails: the call rejects before any stream exists
EncMkdirError ==
    /\ ~crashed /\ enc.pc = "mkdir" /\ FaultAllowed
    /\ DirOf(enc.dst) \notin dirs
    /\ faults' = faults + 1
    /\ enc' = [enc EXCEPT !.pc = "rejected", !.err = EACCES]
    /\ UNCHANGED <<envKey, files, dirs, crashed, dec, str, str2, appVars>>

\* line 29 succeeds, lines 31-40 run: createCipheriv throws on a bad key
\* (outside the try), else both streams are created, the IV is queued and
\* the pipeline is attached
EncMkdirDone ==
    /\ ~crashed /\ enc.pc = "mkdir"
    /\ dirs' = dirs \cup {DirOf(enc.dst)}
    /\ LET made == DirOf(enc.dst) \notin dirs
           ci == createCipheriv(getEncryptionKey(envKey), enc.iv)
       IN  enc' = IF ~ci.ok
                  THEN [enc EXCEPT !.pc = "rejected", !.err = ci.err, !.madeDir = made]
                  ELSE [enc EXCEPT !.pc = "piping", !.cipher = ci.c, !.madeDir = made,
                                   !.rd = "opening", !.wr = "opening",
                                   !.wbuf = EncHeader(enc.iv)]
    /\ UNCHANGED <<envKey, files, faults, crashed, dec, str, str2, appVars>>

\* the source is opened
EncReadOpen ==
    /\ ~crashed /\ enc.rd = "opening" /\ files["plain"].exists
    /\ enc' = [enc EXCEPT !.rd = "open"]
    /\ UNCHANGED <<envKey, files, dirs, faults, crashed, dec, str, str2, appVars>>

\* the source is missing
EncReadOpenEnoent ==
    /\ ~crashed /\ enc.rd = "opening" /\ ~files["plain"].exists
    /\ enc' = PipelineFail([enc EXCEPT !.rd = "closed"], ENOENT)
    /\ UNCHANGED <<envKey, files, dirs, faults, crashed, dec, str, str2, appVars>>

\* the source cannot be opened
EncReadOpenError ==
    /\ ~crashed /\ enc.rd = "opening" /\ files["plain"].exists /\ FaultAllowed
    /\ faults' = faults + 1
    /\ enc' = PipelineFail([enc EXCEPT !.rd = "closed"], EACCES)
    /\ UNCHANGED <<envKey, files, dirs, crashed, dec, str, str2, appVars>>

\* the open of a read stream destroyed meanwhile: the descriptor is closed
EncReadOpenDestroyed ==
    /\ ~crashed /\ enc.rd = "closing"
    /\ enc' = [enc EXCEPT !.rd = "closed"]
    /\ UNCHANGED <<envKey, files, dirs, faults, crashed, dec, str, str2, appVars>>

\* the destination is opened: the file exists from now on
EncWriteOpen ==
    /\ ~crashed /\ enc.wr = "opening"
    /\ files' = Opened(enc.dst)
    /\ enc' = [enc EXCEPT !.wr = "open"]
    /\ UNCHANGED <<envKey, dirs, faults, crashed, dec, str, str2, appVars>>

\* the destination cannot be opened
EncWriteOpenError ==
    /\ ~crashed /\ enc.wr = "opening" /\ FaultAllowed
    /\ faults' = faults + 1
    /\ enc' = PipelineFail([enc EXCEPT !.wr = "closed"], EACCES)
    /\ UNCHANGED <<envKey, files, dirs, crashed, dec, str, str2, appVars>>

\* the open of a write stream destroyed meanwhile still creates the file
EncWriteOpenDestroyed ==
    /\ ~crashed /\ enc.wr = "closing"
    /\ files' = Opened(enc.dst)
    /\ enc' = [enc EXCEPT !.wr = "closed"]
    /\ UNCHANGED <<envKey, dirs, faults, crashed, dec, str, str2, appVars>>

\* a chunk of the source goes through cipher.update into the write buffer
EncData ==
    /\ ~crashed /\ enc.pc = "piping" /\ enc.rd = "open" /\ ~AtEof("plain", enc.pos)
    /\ \E k \in ChunkLengths("plain", enc.pos) :
          LET u == CipherUpdate(enc.cipher, Chunk("plain", enc.pos, k))
          IN  enc' = [enc EXCEPT !.pos = enc.pos + k, !.cipher = u.c,
                                 !.wbuf = enc.wbuf \o u.out]
    /\ UNCHANGED <<envKey, files, dirs, faults, crashed, dec, str, str2, appVars>>

\* end of the source: cipher.final(), then writeStream.end()
EncEnd ==
    /\ ~crashed /\ enc.pc = "piping" /\ enc.rd = "open" /\ AtEof("plain", enc.pos)
    /\ enc' = [enc EXCEPT !.rd = "closed", !.wending = TRUE,
                          !.wbuf = enc.wbuf \o CipherFinal(enc.cipher)]
    /\ UNCHANGED <<envKey, files, dirs, faults, crashed, dec, str, str2, appVars>>

\* a read of the source fails
EncReadError ==
    /\ ~crashed /\ enc.pc = "piping" /\ enc.rd = "open" /\ FaultAllowed
    /\ faults' = faults + 1
    /\ enc' = PipelineFail(enc, EIO)
    /\ UNCHANGED <<envKey, files, dirs, crashed, dec, str, str2, appVars>>

\* the buffered bytes are written to the destination
EncWriteFlush ==
    /\ ~crashed /\ enc.pc = "piping" /\ enc.wr = "open" /\ enc.wbuf # <<>>
    /\ files' = Appended(enc.dst, enc.wbuf)
    /\ enc' = [enc EXCEPT !.wbuf = <<>>]
    /\ UNCHANGED <<envKey, dirs, faults, crashed, dec, str, str2, appVars>>

\* a write to the destination fails
EncWriteError ==
    /\ ~crashed /\ enc.pc = "piping" /\ enc.wr = "open" /\ enc.wbuf # <<>>
    /\ FaultAllowed
    /\ faults' = faults + 1
    /\ enc' = PipelineFail(enc, ENOSPC)
    /\ UNCHANGED <<envKey, files, dirs, crashed, dec, str, str2, appVars>>

\* everything is written: the destination is closed, the pipeline resolves,
\* lines 46-49 return the result
EncFinish ==
    /\ ~crashed /\ enc.pc = "piping" /\ enc.wr = "open"
    /\ enc.wending /\ enc.wbuf = <<>>
    /\ enc' = [enc EXCEPT !.pc = "resolved", !.wr = "closed",
                          !.result = [encryptedPath |-> enc.dst, iv |-> ToHex(enc.iv)]]
    /\ UNCHANGED <<envKey, files, dirs, faults, crashed, dec, str, str2, appVars>>

\* lines 50-57: the pipeline rejected; unlink(outputPath) removes the file,
\* then the error is rethrown
EncCatch ==
    /\ ~crashed /\ enc.pc = "failing" /\ StreamsClosed(enc)
    /\ LET p == EncCleanupPath("plain", enc.dst)
       IN  /\ files[p].exists
           /\ files' = [files EXCEPT ![p] = NoFile]
    /\ enc' = [enc EXCEPT !.pc = "rejected", !.unlink = "ok"]
    /\ UNCHANGED <<envKey, dirs, faults, crashed, dec, str, str2, appVars>>

\* lines 52-56: the unlink fails (nothing at the path, or an injected
\* failure); the failure is ignored
EncCatchUnlinkFails ==
    /\ ~crashed /\ enc.pc = "failing" /\ StreamsClosed(enc)
    /\ LET p == EncCleanupPath("plain", enc.dst)
       IN  \/ /\ ~files[p].exists
              /\ faults' = faults
              /\ enc' = [enc EXCEPT !.pc = "rejected", !.unlink = "enoent"]
           \/ /\ files[p].exists /\ FaultAllowed
              /\ faults' = faults + 1
              /\ enc' = [enc EXCEPT !.pc = "rejected", !.unlink = "eperm"]
    /\ UNCHANGED <<envKey, files, dirs, crashed, dec, str, str2, appVars>>

EncStep ==
    \/ encryptFile \/ EncMkdirError \/ EncMkdirDone
    \/ EncReadOpen \/ EncReadOpenEnoent \/ EncReadOpenError \/ EncReadOpenDestroyed
    \/ EncWriteOpen \/ EncWriteOpenError \/ EncWriteOpenDestroyed
    \/ EncData \/ EncEnd \/ EncReadError
    \/ EncWriteFlush \/ EncWriteError \/ EncFinish
    \/ EncCatch \/ EncCatchUnlinkFails

(***************************************************************************)
(* decryptFile(inputPath = "enc", outputPath = "dec")                      *)
(***************************************************************************)
\* line 77: the first chunk is rejected when it is shorter than the IV
DecFirstChunkTooShort(chunk) == Len(chunk) < IvLength
\* line 103: the path the catch block unlinks
DecCleanupPath(inputPath, outputPath) == outputPath

\* lines 66-67: mkdir is awaited
decryptFile ==
    /\ CanCall /\ dec.pc = "idle"
    /\ dec' = [dec EXCEPT !.pc = "mkdir"]
    /\ UNCHANGED <<envKey, files, dirs, faults, crashed, enc, str, str2, appVars>>

\* line 67 fails
DecMkdirError ==
    /\ ~crashed /\ dec.pc = "mkdir" /\ FaultAllowed
    /\ DirOf("dec") \notin dirs
    /\ faults' = faults + 1
    /\ dec' = [dec EXCEPT !.pc = "rejected", !.err = EACCES]
    /\ UNCHANGED <<envKey, files, dirs, crashed, enc, str, str2, appVars>>

\* line 67 succeeds, lines 69-85 run: both streams are created, ivBuffer is
\* 16 zero bytes, the 'data' and 'error' listeners are set, the promise of
\* the first chunk is awaited
DecMkdirDone ==
    /\ ~crashed /\ dec.pc = "mkdir"
    /\ dirs' = dirs \cup {DirOf("dec")}
    /\ dec' = [dec EXCEPT !.pc = "awaitIv", !.madeDir = DirOf("dec") \notin dirs,
                          !.iv = [j \in 1..IvLength |-> 0],
                          !.rd = "opening", !.wr = "opening"]
    /\ UNCHANGED <<envKey, files, faults, crashed, enc, str, str2, appVars>>

DecReadOpen ==
    /\ ~crashed /\ dec.rd = "opening" /\ files["enc"].exists
    /\ dec' = [dec EXCEPT !.rd = "open"]
    /\ UNCHANGED <<envKey, files, dirs, faults, crashed, enc, str, str2, appVars>>

\* line 84: the 'error' listener rejects the promise; the rejection leaves
\* decryptFile at line 74, outside the try
DecReadOpenEnoent ==
    /\ ~crashed /\ dec.rd = "opening" /\ ~files["enc"].exists
    /\ dec' = [dec EXCEPT !.rd = "closed", !.pc = "rejected", !.err = ENOENT]
    /\ UNCHANGED <<envKey, files, dirs, faults, crashed, enc, str, str2, appVars>>

DecReadOpenError ==
    /\ ~crashed /\ dec.rd = "opening" /\ files["enc"].exists /\ FaultAllowed
    /\ faults' = faults + 1
    /\ dec' = [dec EXCEPT !.rd = "closed", !.pc = "rejected", !.err = EACCES]
    /\ UNCHANGED <<envKey, files, dirs, crashed, enc, str, str2, appVars>>

\* the destination is opened, whatever decryptFile is doing by then
DecWriteOpen ==
    /\ ~crashed /\ dec.wr = "opening"
    /\ files' = Opened("dec")
    /\ dec' = [dec EXCEPT !.wr = "open"]
    /\ UNCHANGED <<envKey, dirs, faults, crashed, enc, str, str2, appVars>>

\* the destination cannot be opened while the pipeline is attached
DecWriteOpenError ==
    /\ ~crashed /\ dec.wr = "opening" /\ dec.pc = "piping" /\ FaultAllowed
    /\ faults' = faults + 1
    /\ dec' = PipelineFail([dec EXCEPT !.wr = "closed"], EACCES)
    /\ UNCHANGED <<envKey, files, dirs, crashed, enc, str, str2, appVars>>

\* the destination cannot be opened before line 95: the write stream emits
\* 'error' and has no listener
DecWriteOpenUncaught ==
    /\ ~crashed /\ dec.wr = "opening" /\ dec.pc # "piping" /\ FaultAllowed
    /\ faults' = faults + 1
    /\ crashed' = TRUE
    /\ dec' = [dec EXCEPT !.wr = "closed"]
    /\ UNCHANGED <<envKey, files, dirs, enc, str, str2, appVars>>

DecWriteOpenDestroyed ==
    /\ ~crashed /\ dec.wr = "closing"
    /\ files' = Opened("dec")
    /\ dec' = [dec EXCEPT !.wr = "closed"]
    /\ UNCHANGED <<envKey, dirs, faults, crashed, enc, str, str2, appVars>>

\* lines 75-80: the first 'data' event carries fewer than 16 bytes; the
\* promise rejects, the read stream keeps flowing
DecFirstTooShort ==
    /\ ~crashed /\ dec.pc = "awaitIv" /\ dec.rd = "open" /\ ~AtEof("enc", dec.pos)
    /\ \E k \in ChunkLengths("enc", dec.pos) :
          /\ DecFirstChunkTooShort(Chunk("enc", dec.pos, k))
          /\ dec' = [dec EXCEPT !.pc = "rejected", !.err = TooShort,
                                !.pos = dec.pos + k, !.first = "short"]
    /\ UNCHANGED <<envKey, files, dirs, faults, crashed, enc, str, str2, appVars>>

\* lines 81-87: the IV is copied, then createDecipheriv throws on a bad key,
\* outside the try
DecFirstKeyError ==
    /\ ~crashed /\ dec.pc = "awaitIv" /\ dec.rd = "open" /\ ~AtEof("enc", dec.pos)
    /\ \E k \in ChunkLengths("enc", dec.pos) :
          LET chunk == Chunk("enc", dec.pos, k)
              iv == Slice(chunk, 0, IvLength)
              di == createCipheriv(getEncryptionKey(envKey), iv)
          IN  /\ ~DecFirstChunkTooShort(chunk)
              /\ ~di.ok
              /\ dec' = [dec EXCEPT !.pc = "rejected", !.err = di.err,
                                    !.iv = iv, !.pos = dec.pos + k, !.first = "full"]
    /\ UNCHANGED <<envKey, files, dirs, faults, crashed, enc, str, str2, appVars>>

\* lines 81-99: the IV is copied, the decipher is created, the rest of the
\* first chunk is deciphered and written, the pipeline is attached
DecFirstChunk ==
    /\ ~crashed /\ dec.pc = "awaitIv" /\ dec.rd = "open" /\ ~AtEof("enc", dec.pos)
    /\ \E k \in ChunkLengths("enc", dec.pos) :
          LET chunk == Chunk("enc", dec.pos, k)
              iv == Slice(chunk, 0, IvLength)
              firstChunk == SliceFrom(chunk, IvLength)
              di == createCipheriv(getEncryptionKey(envKey), iv)
              u == DecipherUpdate(di.c, firstChunk)
          IN  /\ ~DecFirstChunkTooShort(chunk)
              /\ di.ok
              /\ dec' = [dec EXCEPT !.pc = "piping", !.iv = iv, !.pos = dec.pos + k,
                                    !.first = "full",
                                    !.cipher = IF Len(firstChunk) > 0 THEN u.c ELSE di.c,
                                    !.wbuf = IF Len(firstChunk) > 0 THEN u.out ELSE <<>>]
    /\ UNCHANGED <<envKey, files, dirs, faults, crashed, enc, str, str2, appVars>>

\* the source ends before any 'data' event: 'end' has no listener, the
\* promise of line 74 is neither resolved nor rejected
DecEndBeforeData ==
    /\ ~crashed /\ dec.pc = "awaitIv" /\ dec.rd = "open" /\ AtEof("enc", dec.pos)
    /\ dec' = [dec EXCEPT !.rd = "closed"]
    /\ UNCHANGED <<envKey, files, dirs, faults, crashed, enc, str, str2, appVars>>

\* line 84: a read fails before the first chunk
DecReadErrorBeforeData ==
    /\ ~crashed /\ dec.pc = "awaitIv" /\ dec.rd = "open" /\ FaultAllowed
    /\ faults' = faults + 1
    /\ dec' = [dec EXCEPT !.rd = "closed", !.pc = "rejected", !.err = EIO]
    /\ UNCHANGED <<envKey, files, dirs, crashed, enc, str, str2, appVars>>

\* after a rejection at line 78 or 87 the read stream keeps flowing with no
\* 'data' listener: what is left of the source is read and dropped (the
\* dropped chunks are taken together, nothing observes them)
DecDrain ==
    /\ ~crashed /\ dec.pc = "rejected" /\ dec.rd = "open" /\ ~AtEof("enc", dec.pos)
    /\ dec' = [dec EXCEPT !.pos = Len(files["enc"].data)]
    /\ UNCHANGED <<envKey, files, dirs, faults, crashed, enc, str, str2, appVars>>

DecDrainEnd ==
    /\ ~crashed /\ dec.pc = "rejected" /\ dec.rd = "open" /\ AtEof("enc", dec.pos)
    /\ dec' = [dec EXCEPT !.rd = "closed"]
    /\ UNCHANGED <<envKey, files, dirs, faults, crashed, enc, str, str2, appVars>>

\* a later chunk goes through the decipher into the write buffer
DecData ==
    /\ ~crashed /\ dec.pc = "piping" /\ dec.rd = "open" /\ ~AtEof("enc", dec.pos)
    /\ \E k \in ChunkLengths("enc", dec.pos) :
          LET u == DecipherUpdate(dec.cipher, Chunk("enc", dec.pos, k))
          IN  dec' = [dec EXCEPT !.pos = dec.pos + k, !.cipher = u.c,
                                 !.wbuf = dec.wbuf \o u.out]
    /\ UNCHANGED <<envKey, files, dirs, faults, crashed, enc, str, str2, appVars>>

\* end of the source: decipher.final() succeeds, then writeStream.end()
DecEnd ==
    /\ ~crashed /\ dec.pc = "piping" /\ dec.rd = "open" /\ AtEof("enc", dec.pos)
    /\ LET f == DecipherFinal(dec.cipher)
       IN  /\ f.ok
           /\ dec' = [dec EXCEPT !.rd = "closed", !.wending = TRUE,
                                 !.wbuf = dec.wbuf \o f.out]
    /\ UNCHANGED <<envKey, files, dirs, faults, crashed, enc, str, str2, appVars>>

\* end of the source: decipher.final() throws
DecEndError ==
    /\ ~crashed /\ dec.pc = "piping" /\ dec.rd = "open" /\ AtEof("enc", dec.pos)
    /\ LET f == DecipherFinal(dec.cipher)
       IN  /\ ~f.ok
           /\ dec' = PipelineFail(dec, f.err)
    /\ UNCHANGED <<envKey, files, dirs, faults, crashed, enc, str, str2, appVars>>

DecReadError ==
    /\ ~crashed /\ dec.pc = "piping" /\ dec.rd = "open" /\ FaultAllowed
    /\ faults' = faults + 1
    /\ dec' = PipelineFail(dec, EIO)
    /\ UNCHANGED <<envKey, files, dirs, crashed, enc, str, str2, appVars>>

DecWriteFlush ==
    /\ ~crashed /\ dec.pc = "piping" /\ dec.wr = "open" /\ dec.wbuf # <<>>
    /\ files' = Appended("dec", dec.wbuf)
    /\ dec' = [dec EXCEPT !.wbuf = <<>>]
    /\ UNCHANGED <<envKey, dirs, faults, crashed, enc, str, str2, appVars>>

DecWriteError ==
    /\ ~crashed /\ dec.pc = "piping" /\ dec.wr = "open" /\ dec.wbuf # <<>>
    /\ FaultAllowed
    /\ faults' = faults + 1
    /\ dec' = PipelineFail(dec, ENOSPC)
    /\ UNCHANGED <<envKey, files, dirs, crashed, enc, str, str2, appVars>>

\* everything is written and closed: the pipeline resolves, decryptFile
\* returns
DecFinish ==
    /\ ~crashed /\ dec.pc = "piping" /\ dec.wr = "open"
    /\ dec.wending /\ dec.wbuf = <<>>
    /\ dec' = [dec EXCEPT !.pc = "resolved", !.wr = "closed"]
    /\ UNCHANGED <<envKey, files, dirs, faults, crashed, enc, str, str2, appVars>>

\* lines 100-107: unlink(outputPath), then the error is rethrown
DecCatch ==
    /\ ~crashed /\ dec.pc = "failing" /\ StreamsClosed(dec)
    /\ LET p == DecCleanupPath("enc", "dec")
       IN  /\ files[p].exists
           /\ files' = [files EXCEPT ![p] = NoFile]
    /\ dec' = [dec EXCEPT !.pc = "rejected", !.unlink = "ok"]
    /\ UNCHANGED <<envKey, dirs, faults, crashed, enc, str, str2, appVars>>

DecCatchUnlinkFails ==
    /\ ~crashed /\ dec.pc = "failing" /\ StreamsClosed(dec)
    /\ LET p == DecCleanupPath("enc", "dec")
       IN  \/ /\ ~files[p].exists
              /\ faults' = faults
              /\ dec' = [dec EXCEPT !.pc = "rejected", !.unlink = "enoent"]
           \/ /\ files[p].exists /\ FaultAllowed
              /\ faults' = faults + 1
              /\ dec' = [dec EXCEPT !.pc = "rejected", !.unlink = "eperm"]
    /\ UNCHANGED <<envKey, files, dirs, crashed, enc, str, str2, appVars>>

DecStep ==
    \/ decryptFile \/ DecMkdirError \/ DecMkdirDone
    \/ DecReadOpen \/ DecReadOpenEnoent \/ DecReadOpenError
    \/ DecWriteOpen \/ DecWriteOpenError \/ DecWriteOpenUncaught
    \/ DecWriteOpenDestroyed
    \/ DecFirstTooShort \/ DecFirstKeyError \/ DecFirstChunk
    \/ DecEndBeforeData \/ DecReadErrorBeforeData \/ DecDrain \/ DecDrainEnd
    \/ DecData \/ DecEnd \/ DecEndError \/ DecReadError
    \/ DecWriteFlush \/ DecWriteError \/ DecFinish
    \/ DecCatch \/ DecCatchUnlinkFails

(***************************************************************************)
(* createDecryptStream(inputPath = "enc")                                  *)
(***************************************************************************)
\* line 124: the chunk that should carry the IV is too short
StreamChunkTooShort_never(chunk) == FALSE
StreamChunkTooShort(chunk) == Len(chunk) < IvLength
\* line 128: the IV taken from the first chunk
StreamIv(chunk) == Slice(chunk, 0, IvLength)
\* line 132: the rest of the first chunk
StreamRemaining_whole(chunk) == chunk
StreamRemaining(chunk) == SliceFrom(chunk, IvLength)

\* callback(null, data): the Transform pushes data (an empty buffer is not
\* emitted as a chunk); callback(): nothing is pushed
Push(s, data) ==
    [s EXCEPT !.out = s.out \o data, !.lastPush = data]
\* callback(error): the Transform is destroyed and emits 'error'; pipe()
\* unpipes the source, which stays open and paused
Fail_continue(s, e) ==
    [s EXCEPT !.err = e, !.lastPush = <<>>, !.nerr = s.nerr + 1]
Fail(s, e) ==
    [s EXCEPT !.pc = "errored", !.err = e, !.lastPush = <<>>, !.nerr = s.nerr + 1]

\* lines 120-146
transform(s, chunk, env) ==
    LET t == [s EXCEPT !.chunks = Min(s.chunks + 1, ChunkCountCap),
                       !.first = IF s.first # "none" THEN s.first
                                 ELSE IF Len(chunk) < IvLength THEN "short"
                                 ELSE "full"]
    IN
    IF ~t.hasIv THEN
        IF StreamChunkTooShort(chunk) THEN Fail(t, TooShort)
        ELSE LET iv == StreamIv(chunk)
                 di == createCipheriv(getEncryptionKey(env), iv)
                 withIv == [t EXCEPT !.hasIv = TRUE, !.iv = iv]
                 remainingData == StreamRemaining(chunk)
             IN  IF ~di.ok THEN Fail(withIv, di.err)
                 ELSE IF Len(remainingData) > 0
                      THEN LET u == DecipherUpdate(di.c, remainingData)
                           IN  Push([withIv EXCEPT !.decipher = u.c], u.out)
                      ELSE Push([withIv EXCEPT !.decipher = di.c], <<>>)
    ELSE IF t.decipher.live THEN
        LET u == DecipherUpdate(t.decipher, chunk)
        IN  Push([t EXCEPT !.decipher = u.c], u.out)
    ELSE \* neither branch: the callback is never called
        [t EXCEPT !.pc = "stalled"]

\* lines 148-159, then the Transform ends
flush(s) ==
    IF s.decipher.live THEN
        LET f == DecipherFinal(s.decipher)
            t == [s EXCEPT !.finals = s.finals + 1]
        IN  IF f.ok THEN [Push(t, f.out) EXCEPT !.pc = "ended"]
            ELSE Fail(t, f.err)
    ELSE [s EXCEPT !.pc = "ended", !.lastPush = <<>>]

(***************************************************************************)
(* Node runtime: stream.Transform and Readable.pipe                        *)
(*                                                                         *)
(* The Transform calls transform for one chunk at a time.  When the call   *)
(* pushed bytes and its readable side then buffers HighWaterMark bytes or  *)
(* more, the Transform withholds the callback until the consumer has read; *)
(* chunks written meanwhile wait in its writable buffer, and once that     *)
(* buffer holds HighWaterMark bytes write() returns false and pipe()       *)
(* pauses the source until 'drain'.                                        *)
(***************************************************************************)
\* bytes pushed and not yet received by the consumer
Pending(s) == Len(s.out) - s.taken
\* bytes of the source read so far
ReadPos(s) == s.pos + s.queued

\* Transform: is the callback of the chunk that pushed `pushed` withheld
CallbackHeld_never(pushed, buffered) == FALSE
CallbackHeld(pushed, buffered) == pushed # <<>> /\ buffered >= HighWaterMark

\* the Transform runs transform on a chunk and decides about its callback
Transformed(s, chunk, env) ==
    LET t == transform(s, chunk, env)
        held == t.pc = "active" /\ CallbackHeld(t.lastPush, Pending(t))
    IN  [t EXCEPT !.pos = s.pos + Len(chunk),
                  !.inflight = IF held THEN Len(chunk) ELSE 0]

\* decryptStream.write(chunk) as pipe() calls it on 'data'
Written(s, chunk, env) ==
    IF s.inflight = 0
    THEN LET t == Transformed(s, chunk, env)
         IN  [t EXCEPT !.needDrain = t.inflight >= HighWaterMark]
    ELSE [s EXCEPT !.queued = Len(chunk),
                   !.needDrain = s.inflight + Len(chunk) >= HighWaterMark]

\* a chunk read while the Transform is busy fills its writable buffer or is
\* the rest of the file (fs reads deliver 64 KiB, four times the buffer)
SourceChunkLengths(s) ==
    {k \in ChunkLengths("enc", ReadPos(s)) :
        s.inflight > 0 =>
            k >= Min(HighWaterMark, Len(files["enc"].data) - ReadPos(s))}

\* lines 115-162: the read stream is created and piped into the Transform;
\* the caller pipes the returned stream into its sink
\* (the calls of a run are made in the order encryptFile, decryptFile,
\* createDecryptStream)
createDecryptStream ==
    /\ CanCall /\ str.pc = "idle" /\ dec.pc # "idle"
    /\ str' = [str EXCEPT !.pc = "active", !.rd = "opening", !.sink = "piped"]
    /\ UNCHANGED <<envKey, files, dirs, faults, crashed, enc, dec, str2, appVars>>

StrReadOpen ==
    /\ ~crashed /\ str.rd = "opening" /\ files["enc"].exists
    /\ str' = [str EXCEPT !.rd = "open"]
    /\ UNCHANGED <<envKey, files, dirs, faults, crashed, enc, dec, str2, appVars>>

\* the container is missing: the read stream emits 'error'; pipe() puts no
\* 'error' listener on its source
StrReadOpenEnoent ==
    /\ ~crashed /\ str.rd = "opening" /\ ~files["enc"].exists
    /\ crashed' = TRUE
    /\ str' = [str EXCEPT !.rd = "closed", !.rderr = ENOENT]
    /\ UNCHANGED <<envKey, files, dirs, faults, enc, dec, str2, appVars>>

\* the open or a read of the container fails: same unhandled 'error'
StrReadError ==
    /\ ~crashed /\ str.pc = "active" /\ str.rd \in {"opening", "open"}
    /\ files["enc"].exists /\ FaultAllowed
    /\ faults' = faults + 1
    /\ crashed' = TRUE
    /\ str' = [str EXCEPT !.rd = "closed", !.rderr = EIO]
    /\ UNCHANGED <<envKey, files, dirs, enc, dec, str2, appVars>>

\* the flowing source reads a chunk and pipe() writes it to the Transform
StrData ==
    /\ ~crashed /\ str.pc = "active" /\ str.rd = "open"
    /\ ~str.needDrain /\ str.queued = 0 /\ ~AtEof("enc", ReadPos(str))
    /\ \E k \in SourceChunkLengths(str) :
          str' = Written(str, Chunk("enc", ReadPos(str), k), envKey)
    /\ UNCHANGED <<envKey, files, dirs, faults, crashed, enc, dec, str2, appVars>>

\* the consumer receives what the stream buffered; its read releases the
\* callback the Transform withheld, and 'drain' follows when nothing waits
StrConsume ==
    /\ ~crashed /\ str.sink = "piped" /\ str.pc \in {"active", "ended"}
    /\ Pending(str) > 0
    /\ str' = [str EXCEPT !.taken = Len(str.out), !.inflight = 0,
                          !.needDrain = str.needDrain /\ str.queued > 0]
    /\ UNCHANGED <<envKey, files, dirs, faults, crashed, enc, dec, str2, appVars>>

\* the chunk waiting in the writable buffer is transformed
StrDequeue ==
    /\ ~crashed /\ str.pc = "active" /\ str.inflight = 0 /\ str.queued > 0
    /\ LET t == Transformed([str EXCEPT !.queued = 0],
                            Chunk("enc", str.pos, str.queued), envKey)
       IN  str' = [t EXCEPT !.needDrain = str.needDrain /\ t.inflight > 0]
    /\ UNCHANGED <<envKey, files, dirs, faults, crashed, enc, dec, str2, appVars>>

\* end of the container: the read stream closes, pipe() calls end()
StrEnd ==
    /\ ~crashed /\ str.pc = "active" /\ str.rd = "open"
    /\ ~str.needDrain /\ AtEof("enc", ReadPos(str))
    /\ str' = [str EXCEPT !.rd = "closed", !.ending = TRUE]
    /\ UNCHANGED <<envKey, files, dirs, faults, crashed, enc, dec, str2, appVars>>

\* every chunk written has been transformed: the Transform runs flush
StrFlush ==
    /\ ~crashed /\ str.pc = "active" /\ str.ending
    /\ str.inflight = 0 /\ str.queued = 0
    /\ str' = [flush(str) EXCEPT !.ending = FALSE]
    /\ UNCHANGED <<envKey, files, dirs, faults, crashed, enc, dec, str2, appVars>>

\* the sink closes (the client disconnects): pipe() unpipes it from the
\* returned stream, which stops flowing
StrDisconnect ==
    /\ ~crashed /\ str.sink = "piped" /\ str.pc = "active"
    /\ str' = [str EXCEPT !.sink = "gone"]
    /\ UNCHANGED <<envKey, files, dirs, faults, crashed, enc, dec, str2, appVars>>

StrStep ==
    \/ createDecryptStream \/ StrReadOpen \/ StrReadOpenEnoent \/ StrReadError
    \/ StrData \/ StrConsume \/ StrDequeue \/ StrEnd \/ StrFlush
    \/ StrDisconnect

Next == EncStep \/ DecStep \/ StrStep

Spec == Init /\ [][Next]_vars

(***************************************************************************)
(* The environment changes while the process runs: ENCRYPT_KEY is          *)
(* reassigned or deleted once, at any moment.  getEncryptionKey reads      *)
(* process.env at every call (line 9).                                     *)
(***************************************************************************)
\* the process starts with the documented key and small files
EnvInit ==
    /\ Init
    /\ envKey = GoodKey
    /\ files["plain"] \in {NoFile, File(SmallPlain)}
    /\ files["enc"] \in {NoFile, File(SmallContainer), File(SampleContainer),
                          File(<<>>)}

ChangeEnvKey ==
    /\ ~crashed /\ envKey = GoodKey
    /\ \E k \in {OtherKey, <<>>} : envKey' = k
    /\ UNCHANGED <<files, dirs, faults, crashed, enc, dec, str, str2, appVars>>

EnvNext == Next \/ ChangeEnvKey

EnvSpec == EnvInit /\ [][EnvNext]_vars

(***************************************************************************)
(* Several operations in flight at once: encryptFile, decryptFile and two  *)
(* createDecryptStream calls are made at any moment, each on its own       *)
(* destination (encryptFile writes a new container beside the stored one   *)
(* that decryptFile and both streams read).  Their events interleave in    *)
(* the one event loop of the process.                                      *)
(***************************************************************************)
\* the process holds a plaintext and a stored container
ConcInit ==
    /\ envKey = GoodKey
    /\ files = [p \in Paths |-> IF p = "plain" THEN File(SmallPlain)
                                ELSE IF p = "enc" THEN File(SmallContainer)
                                ELSE NoFile]
    /\ dirs = {"temp", "encrypted"}
    /\ faults = 0
    /\ crashed = FALSE
    /\ enc = IdleOp
    /\ dec = IdleOp
    /\ str = IdleStream
    /\ str2 = IdleStream
    /\ AppIdle

\* the calls made so far
Started ==
    Cardinality({i \in 1..4 : <<enc.pc, dec.pc, str.pc, str2.pc>>[i] # "idle"})

CanCallConc == ~crashed /\ Started < MaxConcurrent

\* lines 25-29, called while other operations run; outputPath is a fresh name
encryptFileConc ==
    /\ CanCallConc /\ enc.pc = "idle" /\ ~files["enc2"].exists
    /\ \E iv \in Ivs : enc' = [enc EXCEPT !.pc = "mkdir", !.iv = iv, !.dst = "enc2"]
    /\ UNCHANGED <<envKey, files, dirs, faults, crashed, dec, str, str2, appVars>>

\* lines 66-67, called while other operations run
decryptFileConc ==
    /\ CanCallConc /\ dec.pc = "idle"
    /\ dec' = [dec EXCEPT !.pc = "mkdir"]
    /\ UNCHANGED <<envKey, files, dirs, faults, crashed, enc, str, str2, appVars>>

\* lines 115-162, called while other operations run
createDecryptStreamConc ==
    /\ CanCallConc /\ str.pc = "idle"
    /\ str' = [str EXCEPT !.pc = "active", !.rd = "opening", !.sink = "piped"]
    /\ UNCHANGED <<envKey, files, dirs, faults, crashed, enc, dec, str2, appVars>>

\* lines 115-162: a second call on the same container; it has its own read
\* stream, its own iv and decipher (lines 116-117) and its own Transform
createDecryptStream2 ==
    /\ CanCallConc /\ str2.pc = "idle" /\ str.pc # "idle"
    /\ str2' = [str2 EXCEPT !.pc = "active", !.rd = "opening", !.sink = "piped"]
    /\ UNCHANGED <<envKey, files, dirs, faults, crashed, enc, dec, str, appVars>>

Str2ReadOpen ==
    /\ ~crashed /\ str2.rd = "opening" /\ files["enc"].exists
    /\ str2' = [str2 EXCEPT !.rd = "open"]
    /\ UNCHANGED <<envKey, files, dirs, faults, crashed, enc, dec, str, appVars>>

Str2Data ==
    /\ ~crashed /\ str2.pc = "active" /\ str2.rd = "open"
    /\ ~str2.needDrain /\ str2.queued = 0 /\ ~AtEof("enc", ReadPos(str2))
    /\ \E k \in SourceChunkLengths(str2) :
          str2' = Written(str2, Chunk("enc", ReadPos(str2), k), envKey)
    /\ UNCHANGED <<envKey, files, dirs, faults, crashed, enc, dec, str, appVars>>

Str2Consume ==
    /\ ~crashed /\ str2.sink = "piped" /\ str2.pc \in {"active", "ended"}
    /\ Pending(str2) > 0
    /\ str2' = [str2 EXCEPT !.taken = Len(str2.out), !.inflight = 0,
                            !.needDrain = str2.needDrain /\ str2.queued > 0]
    /\ UNCHANGED <<envKey, files, dirs, faults, crashed, enc, dec, str, appVars>>

Str2End ==
    /\ ~crashed /\ str2.pc = "active" /\ str2.rd = "open"
    /\ ~str2.needDrain /\ AtEof("enc", ReadPos(str2))
    /\ str2' = [str2 EXCEPT !.rd = "closed", !.ending = TRUE]
    /\ UNCHANGED <<envKey, files, dirs, faults, crashed, enc, dec, str, appVars>>

Str2Flush ==
    /\ ~crashed /\ str2.pc = "active" /\ str2.ending
    /\ str2.inflight = 0 /\ str2.queued = 0
    /\ str2' = [flush(str2) EXCEPT !.ending = FALSE]
    /\ UNCHANGED <<envKey, files, dirs, faults, crashed, enc, dec, str, appVars>>

\* the events of the operations in flight; the one failure is a failed read
\* of the first stream's source.  The stored container holds one cipher
\* block, which the decipher keeps until final(): no stream pushes before its
\* flush, so no callback is withheld and no chunk waits in a writable buffer.
ConcNext ==
    \/ encryptFileConc \/ decryptFileConc
    \/ createDecryptStreamConc \/ createDecryptStream2
    \/ EncMkdirDone \/ EncReadOpen \/ EncWriteOpen
    \/ EncData \/ EncEnd \/ EncWriteFlush \/ EncFinish
    \/ DecMkdirDone \/ DecReadOpen \/ DecWriteOpen
    \/ DecFirstTooShort \/ DecFirstChunk \/ DecDrain \/ DecDrainEnd
    \/ DecData \/ DecEnd \/ DecWriteFlush \/ DecFinish
    \/ StrReadOpen \/ StrReadError
    \/ StrData \/ StrConsume \/ StrEnd \/ StrFlush
    \/ Str2ReadOpen
    \/ Str2Data \/ Str2Consume \/ Str2End \/ Str2Flush

ConcSpec == ConcInit /\ [][ConcNext]_vars

(***************************************************************************)
(* File names: path.extname, path.basename, String.prototype.toLowerCase   *)
(* and includes, on names written as sequences of characters (a file name  *)
(* without its directory)                                                  *)
(***************************************************************************)
DotAt(name) == {i \in 1..Len(name) : name[i] = "."}
LastDot(name) == CHOOSE i \in DotAt(name) : \A j \in DotAt(name) : j <= i

\* path.extname: from the last dot to the end; empty when there is no dot,
\* when the only dot is the first character, and for ".."
ExtName(name) ==
    IF DotAt(name) = {} \/ LastDot(name) = 1 \/ name = <<".", ".">>
    THEN <<>>
    ELSE SubSeq(name, LastDot(name), Len(name))

EndsWith(name, suffix) ==
    /\ Len(suffix) <= Len(name)
    /\ SubSeq(name, Len(name) - Len(suffix) + 1, Len(name)) = suffix

\* path.basename(name, ext)
BaseName(name, ext) ==
    IF ext # <<>> /\ name # ext /\ EndsWith(name, ext)
    THEN SubSeq(name, 1, Len(name) - Len(ext))
    ELSE name

LowerChar(c) ==
    CASE c = "A" -> "a" [] c = "P" -> "p" [] c = "N" -> "n" [] c = "G" -> "g"
      [] OTHER -> c
ToLowerCase(name) == [i \in 1..Len(name) |-> LowerChar(name[i])]

Includes(name, part) ==
    \E i \in 0..(Len(name) - Len(part)) : SubSeq(name, i + 1, i + Len(part)) = part

\* upload names, and the values of Date.now() and randomBytes(8) of line
\* 171-172 (one random byte stands for the eight)
OriginalNames ==
    { <<"a", ".", "p", "n", "g">>, <<"A", ".", "P", "N", "G">>,
      <<"a", ".", "g", "i", "f">>, <<"a", ".", "w", "e", "b", "p">>,
      <<"a", ".", "j", "p", "g">>, <<"a">> }
Timestamps == { <<"1", "7">> }
RandomSuffixes == { ToHex(<<171>>), ToHex(<<5>>) }

EncMarker == <<".", "e", "n", "c">>

\* lines 168-175
generateEncryptedFilename(originalFilename, timestamp, random) ==
    LET ext == ExtName(originalFilename)
        baseName == BaseName(originalFilename, ext)
    IN  baseName \o <<"_">> \o timestamp \o <<"_">> \o random \o ext \o EncMarker

GeneratedNames(originalFilename) ==
    {generateEncryptedFilename(originalFilename, t, r) :
        t \in Timestamps, r \in RandomSuffixes}

(***************************************************************************)
(* getCardImage (cardController.ts:78-118).  The card's image is the       *)
(* stored container; the handler pipes the decrypt stream into the         *)
(* response.                                                               *)
(***************************************************************************)
CardNotFound == "Card not found"
ImageNotFound == "Image not found"
FailedToDecrypt == "Failed to decrypt image"
InternalServerError == "Internal server error"

\* cardController.ts:92-96
ContentTypeOf(imagePath) ==
    LET ext == ToLowerCase(ExtName(imagePath))
        t1 == IF Includes(ext, <<".", "p", "n", "g">>) THEN "image/png" ELSE "image/jpeg"
        t2 == IF Includes(ext, <<".", "g", "i", "f">>) THEN "image/gif" ELSE t1
    IN  IF Includes(ext, <<".", "w", "e", "b", "p">>) THEN "image/webp" ELSE t2

\* res.status(code).json({error: message})
JsonError(res, code, message) ==
    [res EXCEPT !.status = code, !.contentType = "application/json",
                !.headersSent = TRUE, !.error = message, !.ended = TRUE]

\* the stored containers a card image can be, and the requests made for them
ImageContainers ==
    { SmallContainer, SampleContainer, CorruptLast(SampleContainer),
      SubSeq(SampleContainer, 1, 5), <<>> }
ImageScenarios ==
    {[card |-> "image", originalname |-> o, enc |-> File(SmallContainer), key |-> GoodKey] :
        o \in OriginalNames}
    \cup {[card |-> "image", originalname |-> <<"a", ".", "p", "n", "g">>,
           enc |-> File(c), key |-> GoodKey] : c \in ImageContainers}
    \cup {[card |-> c, originalname |-> <<"a", ".", "p", "n", "g">>, enc |-> f, key |-> k] :
            c \in {"absent", "noImage", "image"},
            f \in {NoFile, File(SmallContainer)}, k \in {GoodKey, <<>>}}

ImageInit ==
    \E s \in ImageScenarios :
        /\ envKey = s.key
        /\ files = [p \in Paths |-> IF p = "enc" THEN s.enc ELSE NoFile]
        /\ dirs = {"temp", "encrypted"}
        /\ faults = 0
        /\ crashed = FALSE
        /\ enc = IdleOp
        /\ dec = IdleOp
        /\ str = IdleStream
        /\ str2 = IdleStream
        /\ \E n \in GeneratedNames(s.originalname) :
              img = [IdleImg EXCEPT !.card = s.card, !.originalname = s.originalname,
                                    !.imagePath = IF s.card = "image" THEN n ELSE <<>>]
        /\ auth = IdleAuth /\ up = IdleUp /\ pop = IdlePop

\* line 82: Card.findById is awaited
getCardImage ==
    /\ ~crashed /\ img.pc = "idle"
    /\ img' = [img EXCEPT !.pc = "findById"]
    /\ UNCHANGED <<cryptoVars, notImg>>

\* line 82 throws (malformed id, database error): lines 112-117
ImgFindFails ==
    /\ ~crashed /\ img.pc = "findById" /\ FaultAllowed
    /\ faults' = faults + 1
    /\ img' = [img EXCEPT !.pc = "returned",
                          !.res = JsonError(img.res, 500, InternalServerError)]
    /\ UNCHANGED <<envKey, files, dirs, crashed, enc, dec, str, str2, notImg>>

\* lines 83-85
ImgCardMissing ==
    /\ ~crashed /\ img.pc = "findById" /\ img.card = "absent"
    /\ img' = [img EXCEPT !.pc = "returned",
                          !.res = JsonError(img.res, 404, CardNotFound)]
    /\ UNCHANGED <<cryptoVars, notImg>>

\* lines 87-89
ImgImageMissing ==
    /\ ~crashed /\ img.pc = "findById" /\ img.card # "absent"
    /\ img.imagePath = <<>> \/ ~files["enc"].exists
    /\ img' = [img EXCEPT !.pc = "returned",
                          !.res = JsonError(img.res, 404, ImageNotFound)]
    /\ UNCHANGED <<cryptoVars, notImg>>

\* lines 91-110: the headers are set, the decrypt stream is created and piped
\* into the response, the 'error' listener is attached; the handler returns
ImgServe ==
    /\ ~crashed /\ img.pc = "findById" /\ img.card # "absent"
    /\ img.imagePath # <<>> /\ files["enc"].exists
    /\ img' = [img EXCEPT !.pc = "streaming",
                          !.res.contentType = ContentTypeOf(img.imagePath)]
    /\ str' = [str EXCEPT !.pc = "active", !.rd = "opening", !.sink = "piped"]
    /\ UNCHANGED <<envKey, files, dirs, faults, crashed, enc, dec, str2, notImg>>

\* line 103, 'data': pipe() writes what the stream buffered to the response;
\* the first write sends the headers with status 200
ImgWrite ==
    /\ ~crashed /\ img.pc = "streaming" /\ ~img.res.ended
    /\ str.sink = "piped" /\ str.pc \in {"active", "ended"}
    /\ Pending(str) > 0
    /\ img' = [img EXCEPT !.res.headersSent = TRUE,
                          !.res.body = img.res.body \o SubSeq(str.out, str.taken + 1, Len(str.out))]
    /\ str' = [str EXCEPT !.taken = Len(str.out), !.inflight = 0,
                          !.needDrain = str.needDrain /\ str.queued > 0]
    /\ UNCHANGED <<envKey, files, dirs, faults, crashed, enc, dec, str2, notImg>>

\* line 103, 'end': pipe() ends the response once the stream has delivered
\* everything
ImgEnd ==
    /\ ~crashed /\ img.pc = "streaming" /\ ~img.res.ended
    /\ str.pc = "ended" /\ Pending(str) = 0
    /\ img' = [img EXCEPT !.res.headersSent = TRUE, !.res.ended = TRUE]
    /\ UNCHANGED <<cryptoVars, notImg>>

\* lines 105-110: the 'error' listener
ImgOnError ==
    /\ ~crashed /\ img.pc = "streaming" /\ str.pc = "errored" /\ ~img.handled
    /\ img' = [img EXCEPT !.handled = TRUE,
                          !.res = IF ~img.res.headersSent
                                  THEN JsonError(img.res, 500, FailedToDecrypt)
                                  ELSE img.res]
    /\ UNCHANGED <<cryptoVars, notImg>>

ImageNext ==
    \/ getCardImage \/ ImgFindFails \/ ImgCardMissing \/ ImgImageMissing
    \/ ImgServe \/ ImgWrite \/ ImgEnd \/ ImgOnError
    \/ StrReadOpen \/ StrReadError \/ StrData \/ StrDequeue \/ StrEnd \/ StrFlush

ImageSpec == ImageInit /\ [][ImageNext]_vars

\* every enabled event of the request is eventually run
ImageLiveSpec == ImageInit /\ [][ImageNext]_vars /\ WF_vars(ImageNext)

(***************************************************************************)
(* authenticateToken (cardController.ts:282-332).  jsonwebtoken's verify   *)
(* throws JsonWebTokenError for a malformed token or a bad signature,      *)
(* NotBeforeError before the token's nbf and TokenExpiredError from its    *)
(* exp on; NotBeforeError and TokenExpiredError extend JsonWebTokenError.  *)
(***************************************************************************)
AccessTokenRequired == "Access token required. Please provide a valid authentication token."
ServerConfigError == "Server configuration error"
UserNotFound == "Invalid token. User not found."
InvalidToken == "Invalid token. Please authenticate again."
TokenExpired == "Token expired. Please authenticate again."
AuthServerError == "Authentication failed due to server error"

\* the clock at the time of the request
Now == 2

Tokens ==
    [wellFormed : BOOLEAN, sigValid : BOOLEAN, nbf : {0, 3}, exp : {1, 3}]

\* the Authorization header as its words (split(' ')): absent, a scheme
\* alone, a scheme and a token
AuthHeaders == {<<>>, <<"Bearer">>} \cup {<<"Bearer", t>> : t \in Tokens}

\* line 285
TokenOf(authHeader) == IF Len(authHeader) >= 2 THEN <<authHeader[2]>> ELSE <<>>

\* line 303: jwt.verify(token, jwtSecret)
JwtVerify(token) ==
    IF ~token.wellFormed THEN [ok |-> FALSE, error |-> "JsonWebTokenError"]
    ELSE IF ~token.sigValid THEN [ok |-> FALSE, error |-> "JsonWebTokenError"]
    ELSE IF token.nbf > Now THEN [ok |-> FALSE, error |-> "NotBeforeError"]
    ELSE IF Now >= token.exp THEN [ok |-> FALSE, error |-> "TokenExpiredError"]
    ELSE [ok |-> TRUE, error |-> ""]

ErrorParent(kind) ==
    IF kind \in {"TokenExpiredError", "NotBeforeError"} THEN "JsonWebTokenError"
    ELSE "Error"

\* error instanceof cls
RECURSIVE InstanceOf(_, _)
InstanceOf(kind, cls) ==
    \/ kind = cls
    \/ kind # "Error" /\ InstanceOf(ErrorParent(kind), cls)

\* lines 316-331
AuthCatch(res, kind) ==
    IF InstanceOf(kind, "JsonWebTokenError") THEN JsonError(res, 401, InvalidToken)
    ELSE IF InstanceOf(kind, "TokenExpiredError") THEN JsonError(res, 401, TokenExpired)
    ELSE JsonError(res, 500, AuthServerError)

AuthInit ==
    /\ envKey = GoodKey
    /\ files = [p \in Paths |-> NoFile]
    /\ dirs = {"temp"}
    /\ faults = 0
    /\ crashed = FALSE
    /\ enc = IdleOp /\ dec = IdleOp /\ str = IdleStream /\ str2 = IdleStream
    /\ img = IdleImg /\ up = IdleUp /\ pop = IdlePop
    /\ \E h \in AuthHeaders, secret \in BOOLEAN, u \in BOOLEAN :
          auth = [IdleAuth EXCEPT !.header = h, !.jwtSecret = secret, !.userExists = u]

\* lines 283-306: up to the first await
authenticateToken ==
    /\ auth.pc = "idle"
    /\ LET token == TokenOf(auth.header)
           v == JwtVerify(token[1])
       IN  auth' =
             IF token = <<>>
             THEN [auth EXCEPT !.pc = "returned",
                               !.res = JsonError(auth.res, 401, AccessTokenRequired)]
             ELSE IF ~auth.jwtSecret
             THEN [auth EXCEPT !.pc = "returned",
                               !.res = JsonError(auth.res, 500, ServerConfigError)]
             ELSE IF ~v.ok
             THEN [auth EXCEPT !.pc = "returned", !.thrown = v.error,
                               !.res = AuthCatch(auth.res, v.error)]
             ELSE [auth EXCEPT !.pc = "findUser"]
    /\ UNCHANGED <<cryptoVars, notAuth>>

\* lines 306-315: the user exists, next() is called
AuthUserFound ==
    /\ auth.pc = "findUser" /\ auth.userExists
    /\ auth' = [auth EXCEPT !.pc = "returned", !.nextCalled = TRUE]
    /\ UNCHANGED <<cryptoVars, notAuth>>

\* lines 307-311
AuthUserMissing ==
    /\ auth.pc = "findUser" /\ ~auth.userExists
    /\ auth' = [auth EXCEPT !.pc = "returned",
                            !.res = JsonError(auth.res, 401, UserNotFound)]
    /\ UNCHANGED <<cryptoVars, notAuth>>

\* line 306 throws: the database is unreachable
AuthFindFails ==
    /\ auth.pc = "findUser"
    /\ auth' = [auth EXCEPT !.pc = "returned", !.thrown = "MongoError",
                            !.res = AuthCatch(auth.res, "MongoError")]
    /\ UNCHANGED <<cryptoVars, notAuth>>

AuthNext ==
    authenticateToken \/ AuthUserFound \/ AuthUserMissing \/ AuthFindFails

AuthSpec == AuthInit /\ [][AuthNext]_vars

(***************************************************************************)
(* createCard (cardController.ts:121-262) and saveCard of the populate     *)
(* script (populateCards.ts:139-203), running against the card collection  *)
(* with its unique sparse index on scryfallId (populateCards.ts:330-334).  *)
(* encryptFile is taken by its outcome: it resolves with the container     *)
(* written, or rejects with no file left.                                  *)
(***************************************************************************)
NameRequired == "Name is required and must be a non-empty string"
DuplicateScryfall == "A card with this Scryfall ID already exists"
FailedToProcess == "Failed to process uploaded image"
ValidationFailed == "Validation failed"
DuplicateField == "A card with this unique field already exists"

\* the requests in flight, the upload each one carries, the random part of
\* the name each call of generateEncryptedFilename draws
RandomOf(r) == IF r = "r1" THEN ToHex(<<171>>) ELSE IF r = "r2" THEN ToHex(<<5>>) ELSE ToHex(<<9>>)
UploadName == <<"a", ".", "p", "n", "g">>
DownloadName == <<"s", "1", ".", "j", "p", "g">>

\* res.status(201).json({message, card, hasImage})
JsonCreated(res) ==
    [res EXCEPT !.status = 201, !.contentType = "application/json",
                !.headersSent = TRUE, !.ended = TRUE]

\* the unique index: a document with this scryfallId is already stored
UniqueIndexViolated_none(cards, scryfallId) == FALSE
UniqueIndexViolated(cards, scryfallId) ==
    scryfallId # "" /\ \E c \in cards : c.scryfallId = scryfallId

\* cardController.ts:192-210 reached: the upload, if any, is to be encrypted
AfterDuplicateCheck(q) ==
    IF q.hasFile
    THEN [q EXCEPT !.pc = "encrypting", !.tempFilePath = TRUE]
    ELSE [q EXCEPT !.pc = "saving"]

UploadInit ==
    /\ envKey = GoodKey
    /\ files = [p \in Paths |-> NoFile]
    /\ dirs = {"temp", "encrypted"}
    /\ faults = 0
    /\ crashed = FALSE
    /\ enc = IdleOp /\ dec = IdleOp /\ str = IdleStream /\ str2 = IdleStream
    /\ img = IdleImg /\ auth = IdleAuth /\ pop = IdlePop
    /\ \E q \in [Requests -> [valid : BOOLEAN, hasFile : BOOLEAN, scryfallId : {"", "s1"}]] :
          up = [IdleUp EXCEPT
                  !.temp = {r \in Requests : q[r].hasFile},
                  !.req = [r \in Requests |->
                             [IdleReq EXCEPT !.valid = q[r].valid,
                                             !.hasFile = q[r].hasFile,
                                             !.scryfallId = q[r].scryfallId]]]

\* lines 121-173: the body is validated; with a scryfallId, Card.findOne is
\* awaited
createCard ==
    \E r \in Requests :
        /\ up.req[r].pc = "idle"
        /\ up' = [up EXCEPT !.req[r] =
                    IF ~@.valid
                    THEN [@ EXCEPT !.pc = "returned",
                                   !.res = JsonError(@, 400, NameRequired)]
                    ELSE IF @.scryfallId # ""
                    THEN [@ EXCEPT !.pc = "findOne"]
                    ELSE AfterDuplicateCheck(@)]
        /\ UNCHANGED <<cryptoVars, notUp>>

\* lines 169-173
CcFindOne ==
    \E r \in Requests :
        /\ up.req[r].pc = "findOne"
        /\ up' = [up EXCEPT !.req[r] =
                    IF \E c \in up.cards : c.scryfallId = @.scryfallId
                    THEN [@ EXCEPT !.pc = "returned",
                                   !.res = JsonError(@, 400, DuplicateScryfall)]
                    ELSE AfterDuplicateCheck(@)]
        /\ UNCHANGED <<cryptoVars, notUp>>

\* line 169 throws: lines 236-260 with tempFilePath still null
CcFindOneFails ==
    \E r \in Requests :
        /\ up.req[r].pc = "findOne" /\ FaultAllowed
        /\ faults' = faults + 1
        /\ up' = [up EXCEPT !.req[r] =
                    [@ EXCEPT !.pc = "returned", !.thrown = "MongoError",
                              !.res = JsonError(@, 500, InternalServerError)]]
        /\ UNCHANGED <<envKey, files, dirs, crashed, enc, dec, str, str2, notUp>>

\* lines 197-205: encryptFile resolves
CcEncrypted ==
    \E r \in Requests :
        /\ up.req[r].pc = "encrypting"
        /\ LET name == generateEncryptedFilename(UploadName, <<"1", "7">>, RandomOf(r))
           IN  up' = [up EXCEPT !.encrypted = @ \cup {name},
                                !.req[r] = [@ EXCEPT !.pc = "saving", !.imagePath = name]]
        /\ UNCHANGED <<cryptoVars, notUp>>

\* lines 206-209: encryptFile rejects
CcEncryptFails ==
    \E r \in Requests :
        /\ up.req[r].pc = "encrypting" /\ FaultAllowed
        /\ faults' = faults + 1
        /\ up' = [up EXCEPT !.req[r] =
                    [@ EXCEPT !.pc = "returned", !.thrown = "encryptError",
                              !.res = JsonError(@, 500, FailedToProcess)]]
        /\ UNCHANGED <<envKey, files, dirs, crashed, enc, dec, str, str2, notUp>>

\* lines 213-214: the card is stored
CcSaved ==
    \E r \in Requests :
        /\ up.req[r].pc = "saving"
        /\ ~UniqueIndexViolated(up.cards, up.req[r].scryfallId)
        /\ up' = [up EXCEPT !.cards = @ \cup {[by |-> r, name |-> "n1",
                                                scryfallId |-> up.req[r].scryfallId,
                                                imagePath |-> up.req[r].imagePath]},
                            !.req[r] = [@ EXCEPT !.pc = "saved"]]
        /\ UNCHANGED <<cryptoVars, notUp>>

\* line 214 throws the duplicate key error of the unique index
CcSaveDuplicate ==
    \E r \in Requests :
        /\ up.req[r].pc = "saving"
        /\ UniqueIndexViolated(up.cards, up.req[r].scryfallId)
        /\ up' = [up EXCEPT !.req[r] = [@ EXCEPT !.pc = "catch", !.thrown = "E11000"]]
        /\ UNCHANGED <<cryptoVars, notUp>>

\* line 214 throws a validation error or another error
CcSaveFails ==
    \E r \in Requests, e \in {"ValidationError", "MongoError"} :
        /\ up.req[r].pc = "saving" /\ FaultAllowed
        /\ faults' = faults + 1
        /\ up' = [up EXCEPT !.req[r] = [@ EXCEPT !.pc = "catch", !.thrown = e]]
        /\ UNCHANGED <<envKey, files, dirs, crashed, enc, dec, str, str2, notUp>>

\* lines 216-234: the temporary file is unlinked, 201 is sent
CcCreated ==
    \E r \in Requests :
        /\ up.req[r].pc = "saved"
        /\ up' = [up EXCEPT !.temp = IF up.req[r].tempFilePath THEN @ \ {r} ELSE @,
                            !.req[r] = [@ EXCEPT !.pc = "returned",
                                                 !.res = JsonCreated(@)]]
        /\ UNCHANGED <<cryptoVars, notUp>>

\* lines 219-223: the unlink fails, which is only logged
CcCreatedUnlinkFails ==
    \E r \in Requests :
        /\ up.req[r].pc = "saved" /\ up.req[r].tempFilePath /\ FaultAllowed
        /\ faults' = faults + 1
        /\ up' = [up EXCEPT !.req[r] = [@ EXCEPT !.pc = "returned", !.unlinkFailed = TRUE,
                                                 !.res = JsonCreated(@)]]
        /\ UNCHANGED <<envKey, files, dirs, crashed, enc, dec, str, str2, notUp>>

\* lines 249-260
CatchResponse(res, thrown) ==
    IF thrown = "ValidationError" THEN JsonError(res, 400, ValidationFailed)
    ELSE IF thrown = "E11000" THEN JsonError(res, 400, DuplicateField)
    ELSE JsonError(res, 500, InternalServerError)

\* lines 236-260: the temporary file is unlinked, the error is answered
CcCatch ==
    \E r \in Requests :
        /\ up.req[r].pc = "catch"
        /\ up' = [up EXCEPT !.temp = IF up.req[r].tempFilePath THEN @ \ {r} ELSE @,
                            !.req[r] = [@ EXCEPT !.pc = "returned",
                                                 !.res = CatchResponse(@, up.req[r].thrown)]]
        /\ UNCHANGED <<cryptoVars, notUp>>

\* lines 241-246: the unlink fails, which is only logged
CcCatchUnlinkFails ==
    \E r \in Requests :
        /\ up.req[r].pc = "catch" /\ up.req[r].tempFilePath /\ FaultAllowed
        /\ faults' = faults + 1
        /\ up' = [up EXCEPT !.req[r] = [@ EXCEPT !.pc = "returned", !.unlinkFailed = TRUE,
                                                 !.res = CatchResponse(@, up.req[r].thrown)]]
        /\ UNCHANGED <<envKey, files, dirs, crashed, enc, dec, str, str2, notUp>>

\* populateCards.ts:139-147: saveCard is called for the Scryfall card "s1"
saveCard ==
    /\ up.saver.pc = "idle"
    /\ up' = [up EXCEPT !.saver.pc = "findOne"]
    /\ UNCHANGED <<cryptoVars, notUp>>

\* populateCards.ts:142-152: a card with this id or this name exists
SvFindOne ==
    /\ up.saver.pc = "findOne"
    /\ up' = [up EXCEPT !.saver =
                IF \E c \in up.cards : c.scryfallId = "s1" \/ c.name = "s1"
                THEN [@ EXCEPT !.pc = "returned", !.result = "false"]
                ELSE [@ EXCEPT !.pc = "image"]]
    /\ UNCHANGED <<cryptoVars, notUp>>

\* populateCards.ts:157-180: the image is downloaded, encrypted, the
\* download unlinked
SvImage ==
    /\ up.saver.pc = "image"
    /\ LET name == generateEncryptedFilename(DownloadName, <<"1", "7">>, RandomOf("saver"))
       IN  up' = [up EXCEPT !.encrypted = @ \cup {name},
                            !.saver = [@ EXCEPT !.pc = "saving", !.imagePath = name]]
    /\ UNCHANGED <<cryptoVars, notUp>>

\* populateCards.ts:183-197
SvSaved ==
    /\ up.saver.pc = "saving"
    /\ ~UniqueIndexViolated(up.cards, "s1")
    /\ up' = [up EXCEPT !.cards = @ \cup {[by |-> "saver", name |-> "s1",
                                            scryfallId |-> "s1",
                                            imagePath |-> up.saver.imagePath]},
                        !.saver = [@ EXCEPT !.pc = "returned", !.result = "true"]]
    /\ UNCHANGED <<cryptoVars, notUp>>

\* populateCards.ts:195, 199-202: the save throws the duplicate key error
SvSaveDuplicate ==
    /\ up.saver.pc = "saving"
    /\ UniqueIndexViolated(up.cards, "s1")
    /\ up' = [up EXCEPT !.saver = [@ EXCEPT !.pc = "returned", !.result = "false"]]
    /\ UNCHANGED <<cryptoVars, notUp>>

UploadNext ==
    \/ createCard \/ CcFindOne \/ CcFindOneFails
    \/ CcEncrypted \/ CcEncryptFails
    \/ CcSaved \/ CcSaveDuplicate \/ CcSaveFails
    \/ CcCreated \/ CcCreatedUnlinkFails \/ CcCatch \/ CcCatchUnlinkFails
    \/ saveCard \/ SvFindOne \/ SvImage \/ SvSaved \/ SvSaveDuplicate

UploadSpec == UploadInit /\ [][UploadNext]_vars

(***************************************************************************)
(* The populate script (populateCards.ts): fetchSingleCardFromScryfall,    *)
(* the deprecated fetchCardsFromScryfall and populateCards.  The remote    *)
(* API answers each call with any card or fails; saveCard is taken by its  *)
(* result.                                                                 *)
(***************************************************************************)
\* the cards the remote API can return
CardIds == 1..NumCards
ApiError == 0
ApiResponses == CardIds \cup {ApiError}
\* no card: the null of lines 91 and 96
NoCard == 0

\* populateCards.ts:76-98
fetchSingleCardFromScryfall(seenIds, response) ==
    IF response = ApiError THEN [card |-> NoCard, seenIds |-> seenIds]
    ELSE IF response \notin seenIds
         THEN [card |-> response, seenIds |-> seenIds \cup {response}]
         ELSE [card |-> NoCard, seenIds |-> seenIds]

\* populateCards.ts:112 and 122-126: the loop goes on
FetchLoopContinues(p) ==
    /\ Len(p.cards) < p.count
FetchSafetyBreak(p) == Cardinality(p.seenIds) > p.count * 3

\* populateCards.ts:222
maxRetries(targetCount) == targetCount * 5

\* populateCards.ts:229
PopulateLoopContinues_unlimited(savedCount, targetCount, totalFetched) ==
    savedCount < targetCount
PopulateLoopContinues(savedCount, targetCount, totalFetched) ==
    savedCount < targetCount /\ totalFetched < maxRetries(targetCount)

\* the other parts of the program are idle while the script runs
ScriptInit ==
    /\ envKey = GoodKey
    /\ files = [p \in Paths |-> NoFile]
    /\ dirs = {"temp"}
    /\ faults = 0
    /\ crashed = FALSE
    /\ enc = IdleOp /\ dec = IdleOp /\ str = IdleStream /\ str2 = IdleStream
    /\ img = IdleImg /\ auth = IdleAuth /\ up = IdleUp

FetchInit ==
    /\ ScriptInit
    /\ \E c \in 0..MaxCount : pop = [IdlePop EXCEPT !.count = c]

\* populateCards.ts:104-113: the call, up to the first fetch
fetchCardsFromScryfall ==
    /\ pop.pc = "idle"
    /\ pop' = [pop EXCEPT !.pc = IF FetchLoopContinues(pop) THEN "fetching" ELSE "done"]
    /\ UNCHANGED <<cryptoVars, notPop>>

\* populateCards.ts:113-117: the API has answered
FcFetched ==
    /\ pop.pc = "fetching"
    /\ \E response \in ApiResponses :
          LET f == fetchSingleCardFromScryfall(pop.seenIds, response)
          IN  pop' = [pop EXCEPT !.pc = "delay", !.seenIds = f.seenIds,
                                 !.cards = IF f.card # NoCard THEN Append(@, f.card) ELSE @]
    /\ UNCHANGED <<cryptoVars, notPop>>

\* populateCards.ts:120-127 and 112: the delay is over, the safety check and
\* the loop condition are evaluated
FcDelayed ==
    /\ pop.pc = "delay"
    /\ pop' = [pop EXCEPT !.pc = IF FetchSafetyBreak(pop) THEN "done"
                                 ELSE IF FetchLoopContinues(pop) THEN "fetching"
                                 ELSE "done",
                          !.broke = FetchSafetyBreak(pop)]
    /\ UNCHANGED <<cryptoVars, notPop>>

FetchNext == fetchCardsFromScryfall \/ FcFetched \/ FcDelayed

\* every await of the script eventually returns
FetchLiveSpec == FetchInit /\ [][FetchNext]_vars /\ WF_vars(FetchNext)

PopulateInit ==
    /\ ScriptInit
    /\ \E t \in 0..MaxTarget : pop = [IdlePop EXCEPT !.count = t]

\* populateCards.ts:208-212: mongoose.connect is awaited
populateCards ==
    /\ pop.pc = "idle"
    /\ pop' = [pop EXCEPT !.pc = "connecting"]
    /\ UNCHANGED <<cryptoVars, notPop>>

\* populateCards.ts:212 or 217 throws: lines 275-281
PcConnectFails ==
    /\ pop.pc = "connecting"
    /\ pop' = [pop EXCEPT !.pc = "done"]
    /\ UNCHANGED <<cryptoVars, notPop>>

\* populateCards.ts:213-233: connected, the loop is entered or skipped
PcConnected ==
    /\ pop.pc = "connecting"
    /\ pop' = [pop EXCEPT !.looped = TRUE,
                          !.pc = IF PopulateLoopContinues(0, pop.count, 0)
                                 THEN "fetching" ELSE "done"]
    /\ UNCHANGED <<cryptoVars, notPop>>

\* populateCards.ts:233-245: the API has answered; without a card the loop
\* waits and continues, with one saveCard is awaited
PcFetched ==
    /\ pop.pc = "fetching" /\ pop.totalFetched < FetchCap
    /\ \E response \in ApiResponses :
          LET f == fetchSingleCardFromScryfall(pop.seenIds, response)
          IN  pop' = [pop EXCEPT !.totalFetched = @ + 1, !.seenIds = f.seenIds,
                                 !.pc = IF f.card = NoCard THEN "retryDelay" ELSE "saving"]
    /\ UNCHANGED <<cryptoVars, notPop>>

\* populateCards.ts:239-240 and 229: continue
PcRetryDelayed ==
    /\ pop.pc = "retryDelay"
    /\ pop' = [pop EXCEPT !.pc = IF PopulateLoopContinues(pop.savedCount, pop.count,
                                                          pop.totalFetched)
                                 THEN "fetching" ELSE "done"]
    /\ UNCHANGED <<cryptoVars, notPop>>

\* populateCards.ts:245-255: saveCard has returned true or false
PcSaveReturned ==
    /\ pop.pc = "saving"
    /\ \E saved \in BOOLEAN :
          pop' = [pop EXCEPT !.pc = "delay",
                             !.savedCount = IF saved THEN @ + 1 ELSE @]
    /\ UNCHANGED <<cryptoVars, notPop>>

\* populateCards.ts:255-271 and 229: the delay is over, the safety check and
\* the loop condition are evaluated
PcDelayed ==
    /\ pop.pc = "delay"
    /\ pop' = [pop EXCEPT !.pc = IF pop.totalFetched >= maxRetries(pop.count) THEN "done"
                                 ELSE IF PopulateLoopContinues(pop.savedCount, pop.count,
                                                               pop.totalFetched)
                                 THEN "fetching" ELSE "done",
                          !.broke = pop.totalFetched >= maxRetries(pop.count)]
    /\ UNCHANGED <<cryptoVars, notPop>>

PopulateNext ==
    \/ populateCards \/ PcConnectFails \/ PcConnected
    \/ PcFetched \/ PcRetryDelayed \/ PcSaveReturned \/ PcDelayed

\* every await of the script eventually returns
PopulateLiveSpec == PopulateInit /\ [][PopulateNext]_vars /\ WF_vars(PopulateNext)

(***************************************************************************)
(* Properties                                                              *)
(***************************************************************************)
KeyErrors == {KeyMissing, InvalidKeyLength}

\* the call has been made and none of its events is pending any more
DecSettled == dec.pc # "idle" /\ ~OpBusy(dec)
EncSettled == enc.pc # "idle" /\ ~OpBusy(enc)
StrSettled == str.pc # "idle" /\ ~StreamBusy

\* OpBusy and StreamBusy are exact: a settled call has no enabled event
SettledIsFinal ==
    /\ (~crashed /\ enc.pc # "idle" /\ ~OpBusy(enc)) => ~ENABLED EncStep
    /\ (~crashed /\ dec.pc # "idle" /\ ~OpBusy(dec)) => ~ENABLED DecStep
    /\ (~crashed /\ str.pc # "idle" /\ ~StreamBusy) => ~ENABLED StrStep
    /\ (~crashed /\ OpBusy(enc)) => ENABLED EncStep
    /\ (~crashed /\ OpBusy(dec)) => ENABLED DecStep
    /\ (~crashed /\ StreamBusy /\ str.sink = "piped") => ENABLED StrStep

\* C1: round trip.  Once encryptFile has resolved for a plaintext P and
\* decryptFile has been run on the container it wrote (no I/O fault
\* injected), decryptFile has resolved and the destination holds exactly P.
C1_RoundTrip ==
    (enc.pc = "resolved" /\ DecSettled /\ faults = 0 /\ ~crashed)
        => (dec.pc = "resolved" /\ files["dec"] = File(files["plain"].data))

\* the round trip does hold when the first chunk read from the container
\* carries the whole IV
RoundTripWhenIvInFirstChunk ==
    (enc.pc = "resolved" /\ DecSettled /\ faults = 0 /\ ~crashed
        /\ dec.first = "full")
        => (dec.pc = "resolved" /\ files["dec"] = File(files["plain"].data))

\* C2: streaming / whole-file equivalence.  For the same container,
\* delivered the same way (both first chunks short, both full, or no chunk
\* at all) and without I/O faults, once both calls have settled: decryptFile
\* resolved exactly when the stream ended without error, the stream's
\* concatenated output then equals the destination file, and decryptFile
\* rejected exactly when the stream emitted an error.
C2_StreamEqualsWholeFile ==
    (DecSettled /\ StrSettled /\ faults = 0 /\ ~crashed
        /\ files["enc"].exists /\ dec.first = str.first)
        => /\ (dec.pc = "resolved") <=> (str.pc = "ended")
           /\ (dec.pc = "rejected") <=> (str.pc = "errored")
           /\ dec.pc = "resolved" => str.out = files["dec"].data

\* the two do agree on every container that is not empty
StreamEqualsWholeFileUnlessEmpty ==
    (DecSettled /\ StrSettled /\ faults = 0 /\ ~crashed
        /\ files["enc"].exists /\ dec.first = str.first
        /\ files["enc"].data # <<>>)
        => /\ (dec.pc = "resolved") <=> (str.pc = "ended")
           /\ (dec.pc = "rejected") <=> (str.pc = "errored")
           /\ dec.pc = "resolved" => str.out = files["dec"].data

\* C3: cleanup on failed encrypt.  When encryptFile has rejected after its
\* streams were created (read, cipher or write error, source that cannot be
\* opened) and every file operation has completed, the catch block has run
\* unlink, and unless that unlink was refused (EPERM) no file exists at the
\* destination path.
C3_CleanupOnFailedEncrypt ==
    (enc.pc = "rejected" /\ enc.rd # "none")
        => /\ StreamsClosed(enc)
           /\ enc.unlink \in {"ok", "enoent", "eperm"}
           /\ enc.unlink # "eperm" => ~files["enc"].exists

\* a write failed partway through encryptFile, the unlink succeeded and the
\* destination is gone
C3_Witness ==
    /\ enc.pc = "rejected" /\ enc.err = ENOSPC /\ enc.unlink = "ok"
    /\ ~files["enc"].exists /\ files["plain"].exists

\* C4: format rejection leaves nothing behind.  When decryptFile has
\* rejected a source of fewer than 16 bytes with the 'too short' error and
\* none of its events is pending, no file exists at the destination path.
C4_FormatRejectionLeavesNoFile ==
    (DecSettled /\ ~crashed /\ dec.pc = "rejected" /\ dec.err = TooShort
        /\ Len(files["enc"].data) < IvLength)
        => ~files["dec"].exists

\* C5: decryptFile settles on a short source.  When decryptFile was called
\* on an existing source of fewer than 16 bytes (no I/O fault injected) and
\* none of its events is pending any more, its promise has rejected with the
\* 'too short' error.
C5_ShortSourceRejects ==
    (DecSettled /\ ~crashed /\ faults = 0 /\ files["enc"].exists
        /\ Len(files["enc"].data) < IvLength)
        => (dec.pc = "rejected" /\ dec.err = TooShort)

\* C6: cleanup on failed decrypt.  Whenever decryptFile has rejected with a
\* read error, a key error, a cipher error or a write error, and none of its
\* events is pending, no file exists at the destination path unless the
\* unlink itself was refused.
C6_CleanupOnFailedDecrypt ==
    (DecSettled /\ ~crashed /\ dec.pc = "rejected" /\ dec.rd # "none"
        /\ dec.err # TooShort /\ dec.unlink # "eperm")
        => ~files["dec"].exists

\* the cleanup does happen for the failures raised inside the try block
CleanupOnFailedPipeline ==
    (DecSettled /\ ~crashed /\ dec.pc = "rejected"
        /\ dec.unlink \in {"ok", "enoent"})
        => ~files["dec"].exists

\* C7: key validation.  With a key value that is absent, holds a character
\* that is not a hexadecimal digit, or decodes to other than 32 bytes, no
\* call on an existing source ever holds a cipher or decipher, and every
\* such call that has settled (no I/O fault injected) failed with a key
\* error.
KeyAbsent(env) == env = <<>>
KeyHasNonHex(env) == \E i \in 1..Len(env) : ~IsHexChar(env[i])
KeyWrongLength(env) == Len(BufferFromHex(env)) # KeyLength
BadKeyValue(env) == KeyAbsent(env) \/ KeyHasNonHex(env) \/ KeyWrongLength(env)

C7_KeyValidation ==
    (BadKeyValue(envKey) /\ faults = 0 /\ ~crashed)
        => /\ ~enc.cipher.live /\ ~dec.cipher.live /\ ~str.decipher.live
           /\ (EncSettled /\ files["plain"].exists)
                 => (enc.pc = "rejected" /\ enc.err \in KeyErrors)
           /\ (DecSettled /\ files["enc"].exists)
                 => (dec.pc = "rejected" /\ dec.err \in KeyErrors)
           /\ (StrSettled /\ files["enc"].exists)
                 => (str.pc = "errored" /\ str.err \in KeyErrors)

\* C8: fail-fast on a bad key.  A call that fails with a key error has not
\* created its destination directory or file, opened its source or consumed
\* a chunk.
C8_KeyErrorAtFirstStep ==
    /\ (enc.pc = "rejected" /\ enc.err \in KeyErrors)
          => (~enc.madeDir /\ enc.rd = "none" /\ enc.wr = "none")
    /\ (dec.pc = "rejected" /\ dec.err \in KeyErrors)
          => (~dec.madeDir /\ dec.rd = "none" /\ dec.wr = "none" /\ dec.pos = 0)
    /\ (str.pc = "errored" /\ str.err \in KeyErrors)
          => (str.rd = "none" /\ str.pos = 0)

\* C9: length invariant.  When encryptFile has resolved for a plaintext of
\* n bytes, the destination holds exactly 16 + (n \div 16 + 1) * 16 bytes.
ContainerLength(n) == IvLength + ((n \div BlockSize) + 1) * BlockSize

C9_LengthInvariant ==
    enc.pc = "resolved"
        => Len(files["enc"].data) = ContainerLength(Len(files["plain"].data))

\* encryptFile resolved for a plaintext of exactly one block: the container
\* holds the IV and two blocks
C9_Witness ==
    /\ enc.pc = "resolved"
    /\ Len(files["plain"].data) = BlockSize
    /\ Len(files["enc"].data) = IvLength + 2 * BlockSize

\* C10: AWAITING_IV to STREAMING.  Once the decrypt stream has taken a first
\* chunk of at least 16 bytes, its iv is the first 16 bytes of the container
\* and stays so; unless the stream failed, its decipher exists, and while
\* chunks arrive the decipher state and everything pushed so far are those of
\* one decipher created with that IV and fed every consumed byte after the
\* IV: the rest of the first chunk and each later chunk.
C10_AwaitingIvToStreaming ==
    (str.first = "full")
        => /\ str.hasIv
           /\ str.iv = SubSeq(files["enc"].data, 1, IvLength)
           /\ str.pc # "errored" => str.decipher.live
           /\ str.pc = "active" =>
                LET fresh == createCipheriv(getEncryptionKey(envKey), str.iv).c
                    ref == DecipherUpdate(fresh,
                               SubSeq(files["enc"].data, IvLength + 1, str.pos))
                IN  str.decipher = ref.c /\ str.out = ref.out

\* the first chunk carried the IV and more, a later chunk was deciphered as
\* well, and plaintext was pushed at that step
C10_Witness ==
    /\ str.pc = "active" /\ str.first = "full" /\ str.chunks >= 2
    /\ str.pos > IvLength + BlockSize /\ str.lastPush # <<>>
    /\ Len(str.out) > Len(str.lastPush)

\* C11: split-IV limitation.  Once the first chunk delivered to the decrypt
\* stream held fewer than 16 bytes, the stream has failed with the 'too
\* short' error, has pushed no plaintext and has read nothing more, however
\* many bytes the container holds; it has kept no IV and no decipher.
C11_SplitIvRejected ==
    (str.first = "short")
        => /\ str.pc = "errored" /\ str.err = TooShort
           /\ str.out = <<>> /\ str.taken = 0
           /\ ~str.hasIv /\ ~str.decipher.live
           /\ str.pos < IvLength /\ str.queued = 0 /\ str.chunks = 1

\* a valid container whose first chunk stops inside the IV
C11_Witness ==
    /\ str.first = "short" /\ str.pc = "errored"
    /\ files["enc"].data = SampleContainer /\ str.pos = 5

\* C12: END of stream.  When the decrypt stream has ended without error,
\* every byte of the source has been transformed (nothing waits in the
\* Transform), decipher.final() has run exactly once, and what it returned
\* is the last thing pushed: the output is the deciphered chunks followed by
\* the final bytes.
C12_FinalizationAtEnd ==
    (str.pc = "ended")
        => /\ str.rd = "closed" /\ str.pos = Len(files["enc"].data)
           /\ str.inflight = 0 /\ str.queued = 0
           /\ str.finals = 1
           /\ LET n == Len(str.out) - Len(str.lastPush)
              IN  /\ n >= 0
                  /\ SubSeq(str.out, n + 1, Len(str.out)) = str.lastPush
                  /\ str.lastPush = DecipherFinal(str.decipher).out

\* it holds for every source that delivered at least one chunk
FinalizationAtEndUnlessEmpty ==
    (str.pc = "ended" /\ files["enc"].data # <<>>)
        => /\ str.rd = "closed" /\ str.pos = Len(files["enc"].data)
           /\ str.inflight = 0 /\ str.queued = 0
           /\ str.finals = 1
           /\ LET n == Len(str.out) - Len(str.lastPush)
              IN  /\ n >= 0
                  /\ SubSeq(str.out, n + 1, Len(str.out)) = str.lastPush
                  /\ str.lastPush = DecipherFinal(str.decipher).out

\* C13: ERROR is terminal.  A failure of the decrypt stream (first chunk under
\* 16 bytes, key or cipher error in transform, error of decipher.final() in
\* flush) puts the stream in its error state with exactly one 'error' event,
\* and from then on nothing changes for the consumer: no byte is pushed or
\* received, no second error, no end.
StreamErrorOnce ==
    /\ str.err # NoError => (str.pc = "errored" /\ str.nerr = 1)
    /\ str.pc = "errored" => (str.err # NoError /\ str.nerr = 1)
    /\ str.nerr <= 1
StreamErrorFinal ==
    str.pc = "errored"
        => /\ str'.pc = "errored" /\ str'.err = str.err /\ str'.nerr = str.nerr
           /\ str'.out = str.out /\ str'.taken = str.taken
           /\ str'.finals = str.finals
C13_ErrorIsTerminal == [](StreamErrorOnce) /\ [][StreamErrorFinal]_vars

\* plaintext was emitted and received, then finalization failed on the padding
C13_Witness ==
    /\ str.pc = "errored" /\ str.err = BadDecrypt /\ str.nerr = 1
    /\ str.out # <<>> /\ str.taken = Len(str.out) /\ str.finals = 1

\* C14: source read errors reach the consumer.  When reading the container
\* has failed (file missing, I/O error) and no event of the stream is left to
\* happen, the returned stream has emitted its one terminal 'error'.
C14_ReadErrorReachesConsumer ==
    (str.rderr # NoError /\ ~ENABLED StrStep)
        => (str.pc = "errored" /\ str.nerr = 1)

\* the events of a decrypt stream other than an injected I/O fault and the
\* disconnection of its consumer
StreamRuns ==
    \/ StrReadOpen \/ StrReadOpenEnoent
    \/ StrData \/ StrConsume \/ StrDequeue \/ StrEnd \/ StrFlush

\* C15: cancellation.  When the consumer of a decrypt stream that has not
\* failed has disconnected and the stream has nothing left to do (no read,
\* no transform, no end pending), the source read stream is closed.
C15_CancellationReleasesSource ==
    (str.sink = "gone" /\ str.err = NoError /\ str.rderr = NoError
        /\ ~ENABLED StreamRuns)
        => str.rd = "closed"

\* what does hold: after the disconnect the stage reads at most what the
\* buffers of the Transform take, and the handle is closed only if the end of
\* the file was reached within that
CancellationStopsReading ==
    (str.sink = "gone" /\ str.err = NoError /\ str.rderr = NoError
        /\ ~ENABLED StreamRuns)
        => \/ str.rd = "closed" /\ str.pc = "ended"
           \/ str.rd = "open" /\ str.needDrain /\ str.inflight > 0
                /\ Pending(str) >= HighWaterMark

\* C16: release on every exit path.  Once an operation has reported its
\* outcome (encryptFile or decryptFile resolved or rejected, a decrypt stream
\* ended or failed) and none of its events is pending, every stream it
\* created is closed.
OpReleased(o) ==
    (o.pc \in {"resolved", "rejected"} /\ ~OpBusy(o))
        => (o.rd \in {"none", "closed"} /\ o.wr \in {"none", "closed"})
C16_HandlesReleased ==
    ~crashed =>
        /\ OpReleased(enc)
        /\ OpReleased(dec)
        /\ str.pc \in {"ended", "errored"} => str.rd = "closed"

\* encryptFile does release its streams on every path, and decryptFile once
\* its pipeline has started
HandlesReleasedByPipeline ==
    ~crashed =>
        /\ OpReleased(enc)
        /\ dec.cipher.live => OpReleased(dec)
        /\ str.pc = "ended" => str.rd = "closed"

\* C17: backpressure.  The decrypt stream keeps nothing of its own but the
\* block state of its decipher: every byte it was given after the IV has
\* been pushed or sits in the decipher's partial block or held-back block.
\* While HighWaterMark bytes or more wait for the consumer the callback of
\* the last chunk is withheld, so no further chunk is transformed; a step
\* that transforms a chunk starts below that limit and pushes once, and
\* bytes are pushed only by such a step or by the finalization; the source
\* is not read while the Transform asked it to wait.
StreamHoldsOnlyCipherState ==
    /\ (str.pc = "active" /\ str.decipher.live)
          => /\ Len(str.decipher.buf) < BlockSize
             /\ Len(str.decipher.held) \in {0, BlockSize}
             /\ Len(str.out) + Len(str.decipher.buf) + Len(str.decipher.held)
                    = str.pos - IvLength
    /\ (str.pc = "active" /\ Pending(str) >= HighWaterMark) => str.inflight > 0
    /\ str.inflight > 0 => Pending(str) >= HighWaterMark
StreamFollowsConsumer ==
    /\ str'.pos > str.pos
          => /\ str.inflight = 0 /\ Pending(str) < HighWaterMark
             /\ str'.out = str.out \o str'.lastPush
             /\ str'.chunks >= 1
    /\ str'.out # str.out
          => /\ str'.pos > str.pos \/ str'.finals = str.finals + 1
             /\ str'.out = str.out \o str'.lastPush
    /\ ReadPos(str') > ReadPos(str) => ~str.needDrain
C17_Backpressure == [](StreamHoldsOnlyCipherState) /\ [][StreamFollowsConsumer]_vars

\* the consumer is behind: a callback is withheld, a chunk waits behind it
\* and the source is paused with bytes still unread
C17_Witness ==
    /\ str.pc = "active" /\ str.sink = "piped"
    /\ str.inflight > 0 /\ str.queued > 0 /\ str.needDrain
    /\ Pending(str) >= HighWaterMark
    /\ ~AtEof("enc", ReadPos(str))

\* C18: IV placement.  While encryptFile writes, whatever is on disk at the
\* destination followed by what is queued for it starts with the 16 bytes of
\* the IV, and nothing is on disk before the IV is; when encryptFile has
\* resolved, bytes 0..16 of the container are the IV, the returned iv is 32
\* hexadecimal characters that decode to those bytes, and encryptedPath is
\* the destination path.
C18_IvPlacement ==
    /\ (enc.pc = "piping" /\ enc.wr \in {"opening", "open"})
          => LET stream == files["enc"].data \o enc.wbuf
             IN  /\ Len(stream) >= IvLength
                 /\ SubSeq(stream, 1, IvLength) = enc.iv
                 /\ Len(files["enc"].data) \in {0} \cup (IvLength..Len(stream))
    /\ enc.pc = "resolved"
          => /\ enc.iv \in Ivs
             /\ SubSeq(files["enc"].data, 1, IvLength) = enc.iv
             /\ Len(enc.result.iv) = 2 * IvLength
             /\ \A i \in 1..Len(enc.result.iv) :
                    \E j \in 1..16 : HexChars[j] = enc.result.iv[i]
             /\ BufferFromHex(enc.result.iv) = SubSeq(files["enc"].data, 1, IvLength)
             /\ enc.result.encryptedPath = "enc"

\* a resolved call whose container holds ciphertext blocks behind the IV
C18_Witness ==
    /\ enc.pc = "resolved" /\ enc.iv = Iv(2)
    /\ Len(files["enc"].data) = IvLength + 2 * BlockSize
    /\ enc.result.iv = ToHex(Iv(2))
    /\ SubSeq(files["enc"].data, IvLength + 1, IvLength + BlockSize) # enc.iv

\* C20: key loaded once and immutable.  In a process started with the
\* documented key, whatever happens to the configuration value afterwards,
\* every cipher and decipher in use holds the key decoded from the value the
\* process started with, and no operation fails with a key error.
C20_KeyLoadedOnce ==
    /\ \A c \in {enc.cipher, dec.cipher, str.decipher} :
          c.live => c.key = BufferFromHex(GoodKey)
    /\ enc.err \notin KeyErrors /\ dec.err \notin KeyErrors
    /\ str.err \notin KeyErrors

\* what each operation of the concurrent specification produces when it is
\* the only one running: the plaintext is encrypted under the key and the
\* call's IV; the stored container is rejected when its first chunk is
\* shorter than an IV and is decrypted to its plaintext otherwise; a stream
\* whose own source fails stays as it is
EncAsAlone ==
    /\ enc.pc = "resolved"
    /\ files["enc2"] = File(ContainerOf(GoodKey, enc.iv, SmallPlain))
DecAsAlone ==
    IF dec.first = "short"
    THEN dec.pc = "rejected" /\ dec.err = TooShort
    ELSE dec.pc = "resolved" /\ files["dec"] = File(SmallPlain)
StreamAsAlone(s) ==
    IF s.rderr # NoError THEN s.pc = "active"
    ELSE IF s.first = "short"
         THEN s.pc = "errored" /\ s.err = TooShort /\ s.out = <<>>
         ELSE s.pc = "ended" /\ s.out = SmallPlain /\ s.taken = Len(s.out)

\* C19: independence of concurrent operations.  When no event of any
\* operation is left, every operation that was started has the outcome and
\* the output bytes it has when run alone, whatever the other operations
\* did; and the source, the stored container and a destination are written
\* by no operation but their own.
C19_Independence ==
    /\ files["plain"] = File(SmallPlain)
    /\ files["enc"] = File(SmallContainer)
    /\ (~ENABLED ConcNext) =>
          /\ enc.pc # "idle" => EncAsAlone
          /\ dec.pc # "idle" => DecAsAlone
          /\ str.pc # "idle" => StreamAsAlone(str)
          /\ str2.pc # "idle" => StreamAsAlone(str2)

\* the same holds as long as the process is alive
IndependenceWhileAlive ==
    /\ files["plain"] = File(SmallPlain)
    /\ files["enc"] = File(SmallContainer)
    /\ (~crashed /\ ~ENABLED ConcNext) =>
          /\ enc.pc # "idle" => EncAsAlone
          /\ dec.pc # "idle" => DecAsAlone
          /\ str.pc # "idle" => StreamAsAlone(str)
          /\ str2.pc # "idle" => StreamAsAlone(str2)

\* the cipher state of an operation is a function of its own IV and of the
\* bytes it has read itself
CipherStateOwn ==
    /\ enc.pc = "piping" /\ enc.rd = "open" =>
          enc.cipher = CipherUpdate(createCipheriv(getEncryptionKey(GoodKey), enc.iv).c,
                                    SubSeq(SmallPlain, 1, enc.pos)).c
    /\ dec.pc = "piping" /\ dec.rd = "open" =>
          /\ dec.iv = Slice(SmallContainer, 0, IvLength)
          /\ dec.cipher = DecipherUpdate(createCipheriv(getEncryptionKey(GoodKey), dec.iv).c,
                                         SubSeq(SmallContainer, IvLength + 1, dec.pos)).c
    /\ \A s \in {str, str2} :
          s.pc = "active" /\ s.hasIv /\ ~s.ending =>
              /\ s.iv = Slice(SmallContainer, 0, IvLength)
              /\ s.decipher = DecipherUpdate(createCipheriv(getEncryptionKey(GoodKey), s.iv).c,
                                             SubSeq(SmallContainer, IvLength + 1, s.pos)).c

\* an event belongs to one operation: no step changes the state of two
OneOperationPerStep ==
    Cardinality({i \in 1..4 : <<enc, dec, str, str2>>[i] # <<enc', dec', str', str2'>>[i]}) <= 1

StateNeverShared == [](CipherStateOwn) /\ [][OneOperationPerStep]_vars

\* C30: Transform callback discipline.  No invocation of transform or flush
\* returns without having called its callback (the stream never stalls), and
\* whenever transform can still be invoked (the stream is active) the IV is
\* set exactly when the decipher is.
C30_CallbackDiscipline ==
    /\ str.pc # "stalled"
    /\ str.pc = "active" => (str.hasIv <=> str.decipher.live)

\* createDecipheriv threw after iv was assigned: the stream holds an IV and no
\* decipher, and was destroyed by the callback's error
C30_Witness ==
    /\ str.pc = "errored" /\ str.hasIv /\ ~str.decipher.live
    /\ str.chunks = 1 /\ str.nerr = 1

\* the content type an upload's extension stands for
ExpectedContentType(originalname) ==
    LET ext == ExtName(originalname)
    IN  IF ext = <<".", "p", "n", "g">> THEN "image/png"
        ELSE IF ext = <<".", "g", "i", "f">> THEN "image/gif"
        ELSE IF ext = <<".", "w", "e", "b", "p">> THEN "image/webp"
        ELSE "image/jpeg"

\* C21: image content type.  When getCardImage serves a card whose imagePath
\* was generated by generateEncryptedFilename from an upload named *.png,
\* *.gif or *.webp, the Content-Type header is image/png, image/gif or
\* image/webp respectively, and image/jpeg for any other extension
\* (lower-case names).
C21_ImageContentType ==
    (img.pc = "streaming" /\ ~img.handled
        /\ img.originalname = ToLowerCase(img.originalname))
        => img.res.contentType = ExpectedContentType(img.originalname)

\* what the handler does: the extension of a generated name is the container
\* marker, so every image is served as image/jpeg
ContentTypeAlwaysJpeg ==
    (img.pc = "streaming" /\ ~img.handled) => img.res.contentType = "image/jpeg"

\* C22: decrypt failure response.  Once the decrypt stream of a getCardImage
\* request has failed and its 'error' listener has run, the response has
\* status 500 and the error 'Failed to decrypt image'.
C22_DecryptFailureResponse ==
    (img.pc = "streaming" /\ str.pc = "errored" /\ img.handled)
        => /\ img.res.status = 500
           /\ img.res.error = FailedToDecrypt
           /\ img.res.ended

\* the 500 is sent exactly when no plaintext byte had been written before the
\* failure
DecryptFailureBeforeFirstByte ==
    (img.pc = "streaming" /\ str.pc = "errored" /\ img.handled)
        => IF img.res.body = <<>>
           THEN img.res.status = 500 /\ img.res.error = FailedToDecrypt /\ img.res.ended
           ELSE img.res.status = 0 /\ img.res.error = "" /\ ~img.res.ended

\* C24: every image request is eventually completed.  Every getCardImage
\* call leads to a state where the HTTP response is ended.
C24_ResponseEventuallyEnded ==
    (img.pc # "idle") ~> img.res.ended

\* the ways a request stays open: the process died on the unhandled 'error'
\* of the source read stream, or the stream failed after bytes were sent
ResponseEndedUnlessMidStream ==
    (img.pc # "idle") ~>
        \/ img.res.ended
        \/ crashed
        \/ str.pc = "errored" /\ img.res.headersSent /\ img.handled

\* the request carries a well-formed, correctly signed token that has expired
ExpiredTokenPresented ==
    /\ Len(auth.header) = 2 /\ auth.jwtSecret
    /\ auth.header[2].wellFormed /\ auth.header[2].sigValid
    /\ auth.header[2].nbf <= Now /\ auth.header[2].exp <= Now

\* C23: expired token message.  A request with a well-formed, validly signed
\* but expired token is answered 401 with 'Token expired. Please
\* authenticate again.'
C23_ExpiredTokenMessage ==
    (auth.pc = "returned" /\ ExpiredTokenPresented)
        => /\ auth.res.status = 401
           /\ auth.res.error = TokenExpired

\* what the handler answers: the generic message, and the expired message in
\* no run at all
ExpiredTokenAnsweredInvalid ==
    /\ (auth.pc = "returned" /\ ExpiredTokenPresented)
          => /\ auth.res.status = 401
             /\ auth.res.error = InvalidToken
             /\ auth.thrown = "TokenExpiredError"
    /\ auth.res.error # TokenExpired

\* C25: temporary upload is always removed.  Once createCard has answered a
\* request that carried a file, the temporary file no longer exists, unless
\* its unlink failed.
C25_TempFileRemoved ==
    \A r \in Requests :
        (up.req[r].pc = "returned" /\ up.req[r].hasFile /\ ~up.req[r].unlinkFailed)
            => r \notin up.temp

\* the file is removed exactly on the paths that reach the save: the early
\* returns (validation, duplicate found, encryption failure) leave it
TempFileRemovedAfterSave ==
    \A r \in Requests :
        (up.req[r].pc = "returned" /\ up.req[r].hasFile /\ ~up.req[r].unlinkFailed)
            => (r \notin up.temp
                  <=> (up.req[r].res.status = 201
                         \/ (up.req[r].thrown \in {"ValidationError", "E11000", "MongoError"}
                               /\ up.req[r].tempFilePath)))

\* C26: no orphan encrypted image.  Once createCard has answered, the
\* encrypted image it wrote, if any, is the imagePath of a stored card.
C26_NoOrphanEncryptedImage ==
    \A r \in Requests :
        (up.req[r].pc = "returned" /\ up.req[r].imagePath \in up.encrypted)
            => \E c \in up.cards : c.imagePath = up.req[r].imagePath

\* the image is referenced exactly when the request was answered 201
EncryptedImageKeptOnFailure ==
    \A r \in Requests :
        (up.req[r].pc = "returned" /\ up.req[r].imagePath # <<>>)
            => /\ up.req[r].imagePath \in up.encrypted
               /\ (\E c \in up.cards : c.imagePath = up.req[r].imagePath)
                     <=> up.req[r].res.status = 201

\* the request carried a scryfallId, nothing else failed for it, and the card
\* stored under that scryfallId is another caller's
LostTheRace(r) ==
    /\ up.req[r].pc = "returned" /\ up.req[r].valid /\ up.req[r].scryfallId # ""
    /\ up.req[r].thrown \notin {"MongoError", "ValidationError", "encryptError"}
    /\ \A c \in up.cards : c.by # r

\* C27: unique scryfallId under concurrency.  At most one card is stored per
\* scryfallId, whatever the interleaving of createCard and saveCard; a
\* createCard request answered 201 has stored its card; and a request that
\* lost is answered 400 with one of the two duplicate errors.
C27_UniqueScryfallId ==
    /\ \A c1, c2 \in up.cards :
          (c1.scryfallId = c2.scryfallId /\ c1.scryfallId # "") => c1 = c2
    /\ \A r \in Requests :
          /\ (up.req[r].pc = "returned" /\ up.req[r].res.status = 201)
                => \E c \in up.cards : c.by = r
          /\ LostTheRace(r)
                => /\ up.req[r].res.status = 400
                   /\ up.req[r].res.error \in {DuplicateScryfall, DuplicateField}
                   /\ \E c \in up.cards : c.scryfallId = up.req[r].scryfallId

\* both requests carried the same scryfallId and both passed the findOne
\* check before either saved: one was answered 201, the other got the
\* duplicate key error of the index
C27_Witness ==
    /\ up.req["r1"].pc = "returned" /\ up.req["r2"].pc = "returned"
    /\ up.req["r1"].scryfallId = "s1" /\ up.req["r2"].scryfallId = "s1"
    /\ up.req["r1"].res.status = 201
    /\ up.req["r2"].thrown = "E11000" /\ up.req["r2"].res.error = DuplicateField
    /\ Cardinality(up.cards) = 1

\* C28: the deprecated bulk fetch terminates.  Every call of
\* fetchCardsFromScryfall eventually returns, whatever the remote API
\* answers.
C28_BulkFetchTerminates ==
    (pop.pc # "idle") ~> (pop.pc = "done")

\* the safety check counts the cards that were kept, never the failed or
\* repeated answers: it cannot fire
FetchSafetyCheckIsDead ==
    /\ Cardinality(pop.seenIds) = Len(pop.cards)
    /\ Len(pop.cards) <= pop.count
    /\ ~pop.broke
    /\ pop.pc = "done" => Len(pop.cards) = pop.count

\* the bounds of the loop of populateCards
PopulateBounds ==
    /\ pop.totalFetched <= 5 * pop.count
    /\ pop.savedCount <= pop.count
    /\ pop.savedCount <= pop.totalFetched
    /\ (pop.pc = "done" /\ pop.looped)
          => (pop.savedCount = pop.count \/ pop.totalFetched = 5 * pop.count)

\* C29: populate loop bounds.  populateCards(targetCount) makes at most
\* 5 * targetCount fetch attempts; savedCount never exceeds targetCount nor
\* totalFetched; when the loop has exited savedCount = targetCount or
\* totalFetched = 5 * targetCount; and the script stops.
C29_PopulateLoopBounds ==
    [](PopulateBounds) /\ ((pop.pc # "idle") ~> (pop.pc = "done"))

\* the loop was ended by the fetch limit with the target not reached, after
\* fetches that gave no card
C29_Witness ==
    /\ pop.pc = "done" /\ pop.looped /\ pop.count > 0
    /\ pop.totalFetched = 5 * pop.count
    /\ pop.savedCount < pop.count

====
